---------------------------- MODULE Spec2Model ----------------------------
(***************************************************************************)
(* A model of the LoRA injection point (src/transformers/adapters/lora.py) *)
(* and of the flexible prediction-head dispatch                            *)
(* (src/transformers/adapter_heads.py).                                    *)
(*                                                                         *)
(* Tensors are matrices: sequences of rows of scalars.  A scalar is an     *)
(* exact rational <<n, d>> with d > 0 in lowest terms, or NonFinite,       *)
(* which stands for the IEEE values NaN, +Inf and -Inf.  A 1-D tensor of   *)
(* n elements is the 1 x n matrix it broadcasts as.                        *)
(***************************************************************************)
EXTENDS Integers, Sequences, FiniteSets, TLC

VARIABLES
    config_adapters, \* self.config.adapters: adapter name -> the LoRA config registered for it
    kind,            \* "Linear" or "MergedLinear": the class of the injection point
    attn_key,        \* Linear.attn_key ("None" for MergedLinear)
    fan_in_fan_out,  \* the layer's fan_in_fan_out flag
    layer_idx,       \* LoRALayer.layer_idx ("None" until add_adapter sets it)
    weight,          \* nn.Linear.weight.data
    bias,            \* nn.Linear.bias
    loras,           \* LoRALayer.loras: adapter name -> LoRA module, or NoModule
    merged,          \* LoRALayer.merged: "False", "None" or an adapter name
    base,            \* history: the weight the layer was constructed with
    premerge,        \* history: the weight just before the last merge that set merged
    pure,            \* history: only add_adapter of absent names, merge, reset, forward so far
    n_adds,          \* history: number of add_adapter calls so far
    since_add,       \* history: the adapter added last, with only forward calls since
    last             \* history: the last call, how it ended and what it started from

lora_vars == <<config_adapters, kind, attn_key, fan_in_fan_out, layer_idx, weight, bias, loras,
               merged, base, premerge, pure, n_adds, since_add, last>>

-----------------------------------------------------------------------------
(* Scalars *)

NonFinite == <<0, 0>>

Abs(n) == IF n < 0 THEN -n ELSE n

RECURSIVE GCD(_, _)
GCD(a, b) == IF b = 0 THEN a ELSE GCD(b, a % b)

\* the rational n/d (d # 0) in lowest terms with a positive denominator
Rat(n, d) ==
    LET g == GCD(Abs(n), Abs(d))
        s == IF d < 0 THEN -1 ELSE 1
    IN  <<(s * n) \div g, (s * d) \div g>>

Num(n) == <<n, 1>>

IsFinite(v) == v[2] # 0

FAdd(a, b) ==
    IF ~IsFinite(a) \/ ~IsFinite(b) THEN NonFinite
    ELSE Rat(a[1] * b[2] + b[1] * a[2], a[2] * b[2])

FSub(a, b) ==
    IF ~IsFinite(a) \/ ~IsFinite(b) THEN NonFinite
    ELSE Rat(a[1] * b[2] - b[1] * a[2], a[2] * b[2])

FMul(a, b) ==
    IF ~IsFinite(a) \/ ~IsFinite(b) THEN NonFinite
    ELSE Rat(a[1] * b[1], a[2] * b[2])

\* x / 0 is +-Inf or NaN: not finite.  Divisors are always finite in this model
\* (they come from adapter parameters), so NonFinite is absorbing.
FDiv(a, b) ==
    IF ~IsFinite(a) \/ ~IsFinite(b) THEN NonFinite
    ELSE IF b[1] = 0 THEN NonFinite
    ELSE Rat(a[1] * b[2], a[2] * b[1])

-----------------------------------------------------------------------------
(* Tensors *)

\* the outcome of a tensor operation whose operand shapes do not fit
\* (torch raises RuntimeError)
ShapeErr == <<>>

IsErr(m) == m = ShapeErr

Rows(m) == Len(m)
Cols(m) == Len(m[1])

Fill(r, c, v) == [i \in 1..r |-> [j \in 1..c |-> v]]

\* w.T
Transpose(m) == [j \in 1..Cols(m) |-> [i \in 1..Rows(m) |-> m[i][j]]]

RECURSIVE SumTo(_, _)
SumTo(f, n) == IF n = 0 THEN Num(0) ELSE FAdd(SumTo(f, n - 1), f[n])

\* a @ b
MatMul(a, b) ==
    IF IsErr(a) \/ IsErr(b) THEN ShapeErr
    ELSE IF Cols(a) # Rows(b) THEN ShapeErr
    ELSE [i \in 1..Rows(a) |-> [j \in 1..Cols(b) |->
             SumTo([t \in 1..Cols(a) |-> FMul(a[i][t], b[t][j])], Cols(a))]]

\* tensor.flatten(): the elements in row-major order, as a 1-D tensor
RECURSIVE FlatSeq(_, _)
FlatSeq(m, n) == IF n = 0 THEN <<>> ELSE FlatSeq(m, n - 1) \o m[n]

Flatten(m) == <<FlatSeq(m, Rows(m))>>

Max(a, b) == IF a >= b THEN a ELSE b

\* an elementwise binary operation with torch's broadcasting of 2-D operands
AddOp == "add"
SubOp == "sub"
MulOp == "mul"
DivOp == "div"

Apply(op, x, y) ==
    CASE op = AddOp -> FAdd(x, y)
      [] op = SubOp -> FSub(x, y)
      [] op = MulOp -> FMul(x, y)
      [] op = DivOp -> FDiv(x, y)

Elementwise(op, a, b) ==
    IF IsErr(a) \/ IsErr(b) THEN ShapeErr
    ELSE IF \/ (Rows(a) # Rows(b) /\ Rows(a) # 1 /\ Rows(b) # 1)
            \/ (Cols(a) # Cols(b) /\ Cols(a) # 1 /\ Cols(b) # 1)
         THEN ShapeErr
    ELSE [i \in 1..Max(Rows(a), Rows(b)) |-> [j \in 1..Max(Cols(a), Cols(b)) |->
             Apply(op,
                   a[IF Rows(a) = 1 THEN 1 ELSE i][IF Cols(a) = 1 THEN 1 ELSE j],
                   b[IF Rows(b) = 1 THEN 1 ELSE i][IF Cols(b) = 1 THEN 1 ELSE j])]]

\* tensor * scalar
Scale(m, s) == IF IsErr(m) THEN ShapeErr
               ELSE [i \in 1..Rows(m) |-> [j \in 1..Cols(m) |-> FMul(m[i][j], s)]]

\* F.linear(x, w, bias) = x @ w.T + bias
FLinear(x, w, b) ==
    IF IsErr(w) THEN ShapeErr
    ELSE Elementwise(AddOp, MatMul(x, Transpose(w)), b)


-----------------------------------------------------------------------------
(* The values the model draws *)

Names == {"a", "b"}

\* the string that stands for Python's None, and the one for False
None == "None"
False == "False"

\* no LoRA module under a name of self.loras
NoModule == [r |-> -1]

\* an attribute a LoRA module does not have
NoAttr == <<>>

\* values of single entries of lora_A and lora_B after initialisation
AVals == {Num(2)}
BVals == {Num(0), Num(2)}

\* LoRAConfig records that config.adapters.match may return.  The valid ones:
\* both composition modes and both initialisers on the default attention
\* matrices, the no_decomposition variants, other attn_matrices, and rank 0.
ValidConfigs ==
    [r : {1}, alpha : {2}, composition_mode : {"add", "scale"},
     no_decomposition : {FALSE}, init_weights : {"lora", "bert"},
     attn_matrices : {{"q", "v"}}, dropout : {Num(0)}]
    \cup
    [r : {1}, alpha : {2}, composition_mode : {"add", "scale"},
     no_decomposition : {TRUE}, init_weights : {"lora"},
     attn_matrices : {{"q", "v"}}, dropout : {Num(0)}]
    \cup
    [r : {1}, alpha : {2}, composition_mode : {"add", "scale"},
     no_decomposition : {FALSE}, init_weights : {"bert"},
     attn_matrices : {{"k"}}, dropout : {Num(0)}]
    \cup
    [r : {1}, alpha : {2}, composition_mode : {"add"},
     no_decomposition : BOOLEAN, init_weights : {"lora"},
     attn_matrices : {{}}, dropout : {Num(0)}]
    \cup
    [r : {0}, alpha : {2}, composition_mode : {"add"},
     no_decomposition : {FALSE}, init_weights : {"lora"},
     attn_matrices : {{"q", "v"}}, dropout : {Num(0)}]

\* one with dropout
DropoutConfigs ==
    [r : {1}, alpha : {2}, composition_mode : {"add"},
     no_decomposition : {FALSE}, init_weights : {"bert"},
     attn_matrices : {{"q", "v"}}, dropout : {Rat(1, 2)}]

\* the ones LoRA.__init__ looks at for its errors: r > 1 with
\* no_decomposition, and an init_weights that is neither "lora" nor "bert"
EdgeConfigs ==
    [r : {2}, alpha : {2}, composition_mode : {"add"},
     no_decomposition : {TRUE}, init_weights : {"lora"},
     attn_matrices : {{"q", "v"}}, dropout : {Num(0)}]
    \cup
    [r : {0, 1}, alpha : {2}, composition_mode : {"add"},
     no_decomposition : {FALSE}, init_weights : {"ia3"},
     attn_matrices : {{"q", "v"}}, dropout : {Num(0)}]

LoRAConfigs == ValidConfigs \cup DropoutConfigs \cup EdgeConfigs

\* the weights and biases a layer is constructed with, as nn.Linear(in, out)
\* lays them out: (out_features, in_features) and (out_features,)
LinearWeights == {<<<<Num(1)>>, <<Num(3)>>>>}
LinearBiases == {<<<<Num(0), Num(1)>>>>}
MergedWeights == {<<<<Num(1)>>, <<Num(3)>>, <<Num(-1)>>>>}
MergedBiases == {<<<<Num(0), Num(1), Num(0)>>>>}

\* inputs of forward: batches of one row
Inputs == {<<<<Num(1)>>>>, <<<<Num(2)>>>>}

\* active compositions: flat sequences of adapter names; <<>> is "no active setup"
Setups == {<<>>, <<"a">>, <<"b">>, <<"c">>, <<"a", "b">>}

\* the bound on the number of add_adapter calls in a run
MaxAdds == 2

in_features == IF fan_in_fan_out THEN Rows(base) ELSE Cols(base)
out_features == IF fan_in_fan_out THEN Cols(base) ELSE Rows(base)

-----------------------------------------------------------------------------
(* class LoRA *)

Tensors(rows, cols, vals) == [1..rows -> [1..cols -> vals]]

\* LoRA.__init__ raises
LoRA_init_raises(config) ==
    \/ config.r > 1 /\ config.no_decomposition
    \/ config.r > 0 /\ config.init_weights \notin {"lora", "bert"}

\* the modules LoRA.__init__ can construct: the random initialisers draw the
\* entries of lora_A (and of lora_B under "bert"); "lora" zeroes lora_B
LoRA_init(lora_A_shape, lora_B_shape, config) ==
    LET common == [r |-> config.r, lora_alpha |-> config.alpha,
                   composition_mode |-> config.composition_mode,
                   no_decomposition |-> config.no_decomposition,
                   dropout |-> config.dropout,
                   enable_lora |-> NoAttr, lora_ind |-> NoAttr]
        As == Tensors(lora_A_shape[1], lora_A_shape[2], AVals)
        Bs == IF config.no_decomposition THEN {NoAttr}
              ELSE IF config.init_weights = "lora"
                   THEN {Fill(lora_B_shape[1], lora_B_shape[2], Num(0))}
                   ELSE Tensors(lora_B_shape[1], lora_B_shape[2], BVals)
    IN  IF LoRA_init_raises(config) THEN {}
        ELSE IF config.r > 0
             THEN {[f \in DOMAIN common \cup {"lora_A", "lora_B", "scaling"} |->
                      CASE f = "lora_A" -> A
                        [] f = "lora_B" -> B
                        [] f = "scaling" -> Rat(config.alpha, config.r)
                        [] OTHER -> common[f]] : A \in As, B \in Bs}
             ELSE {[f \in DOMAIN common \cup {"lora_A", "lora_B", "scaling"} |->
                      IF f \in DOMAIN common THEN common[f] ELSE NoAttr]}

\* LoRA.com(weights, added)
com(lora, weights, added) ==
    IF lora.composition_mode = "add"
    THEN Elementwise(AddOp, weights, Scale(added, lora.scaling))
    ELSE Elementwise(MulOp, weights, Scale(added, lora.scaling))

\* LoRA.com_inv(weights, added)
com_inv(lora, weights, added) ==
    IF lora.composition_mode = "add"
    THEN Elementwise(SubOp, weights, Scale(added, lora.scaling))
    ELSE Elementwise(DivOp, weights, Scale(added, lora.scaling))


-----------------------------------------------------------------------------
(* class LoRALayer, and what Linear and MergedLinear share *)

\* what config.adapters.match returns when no LoRA config matches
NoConfig == [none |-> TRUE]

MatchResults == LoRAConfigs \cup {NoConfig}

\* the configs the second adapter name is registered with
SecondConfigs ==
    {c \in ValidConfigs : /\ c.r = 1 /\ c.no_decomposition
                          /\ c.composition_mode = "scale"
                          /\ c.attn_matrices = {"q", "v"}}

\* self.config.adapters.match(adapter_name, config_type=LoRAConfig,
\*                            layer_idx=..., location_key=...)
match(adapter_name, idx) == config_adapters[adapter_name]

\* name in self.loras
Present(name) == name \in DOMAIN loras /\ loras[name] # NoModule

\* not self.merged
Falsy(m) == m \in {False, None}

\* def T(w): return w.T if self.fan_in_fan_out else w
T(w) == IF IsErr(w) THEN ShapeErr ELSE IF fan_in_fan_out THEN Transpose(w) ELSE w

\* Linear._check_lora_location / LoRALayer._check_lora_location
check_lora_location(config) ==
    IF kind = "Linear" THEN attn_key \in config.attn_matrices ELSE TRUE

\* Linear._get_lora_shapes / MergedLinear._get_lora_shapes
get_lora_shapes(config) ==
    IF kind = "Linear"
    THEN <<(<<config.r, in_features>>), (<<out_features, config.r>>)>>
    ELSE <<(<<config.r * Cardinality(config.attn_matrices), in_features>>),
           (<<(out_features \div 3) * Cardinality(config.attn_matrices), config.r>>)>>

\* LoRALayer.add_adapter with lora_config the result of config.adapters.match:
\* the possible outcomes [exc, ret, loras]
LoRALayer_add_adapter(adapter_name, lora_config) ==
    IF lora_config # NoConfig /\ check_lora_location(lora_config)
    THEN IF LoRA_init_raises(lora_config)
         THEN {[exc |-> "ValueError", ret |-> None, loras |-> loras]}
         ELSE {[exc |-> "none", ret |-> "True",
                loras |-> [loras EXCEPT ![adapter_name] = lora]] :
                  lora \in LoRA_init(get_lora_shapes(lora_config)[1],
                                     get_lora_shapes(lora_config)[2], lora_config)}
    ELSE {[exc |-> "none", ret |-> "False", loras |-> loras]}

\* the number of True entries of a sequence of booleans
CountTrue(s) == Cardinality({i \in DOMAIN s : s[i]})

AnyTrue(s) == \E i \in DOMAIN s : s[i]

\* MergedLinear.add_adapter: it sets enable_lora and lora_ind on the module
\* LoRALayer.add_adapter created, and has no return statement
MergedLinear_add_adapter(adapter_name, lora_config) ==
    {IF o.ret = "True"
     THEN LET enable == <<"q" \in lora_config.attn_matrices,
                          "k" \in lora_config.attn_matrices,
                          "v" \in lora_config.attn_matrices>>
              ind == IF AnyTrue(enable)
                     THEN [p \in 1..out_features |->
                             enable[((p - 1) \div (out_features \div 3)) + 1]]
                     ELSE NoAttr
          IN  [exc |-> "none", ret |-> None,
               loras |-> [o.loras EXCEPT ![adapter_name] =
                            [@ EXCEPT !.enable_lora = enable, !.lora_ind = ind]]]
     ELSE IF o.exc = "none" THEN [o EXCEPT !.ret = None] ELSE o
       : o \in LoRALayer_add_adapter(adapter_name, lora_config)}

\* a delete_adapter that keeps the module
LoRALayer_delete_adapter_keeps(adapter_name) == loras

\* LoRALayer.delete_adapter: the new self.loras
LoRALayer_delete_adapter(adapter_name) ==
    IF Present(adapter_name) THEN [loras EXCEPT ![adapter_name] = NoModule]
    ELSE loras

\* F.conv1d(inp, w.unsqueeze(-1), groups=groups) for inp of shape
\* (channels, length) and w of shape (out_channels, channels / groups)
GroupedConv(inp, w, groups) ==
    IF IsErr(inp) \/ IsErr(w) \/ groups = 0 THEN ShapeErr
    ELSE IF Rows(inp) # groups * Cols(w) \/ Rows(w) % groups # 0 THEN ShapeErr
    ELSE [oc \in 1..Rows(w) |-> [t \in 1..Cols(inp) |->
            LET g == (oc - 1) \div (Rows(w) \div groups)
            IN  SumTo([j \in 1..Cols(w) |-> FMul(w[oc][j], inp[g * Cols(w) + j][t])],
                      Cols(w))]]

\* MergedLinear.zero_pad(x, lora)
zero_pad(x, lora) ==
    IF IsErr(x) \/ lora.lora_ind = NoAttr THEN ShapeErr
    ELSE
    LET fill == IF lora.composition_mode = "add" THEN Num(0) ELSE Num(1)
        width == (out_features \div Len(lora.enable_lora)) * CountTrue(lora.enable_lora)
        flat == Flatten(x)[1]
        \* x.reshape(-1, width)
        rrows == Len(flat) \div width
        reshaped == [i \in 1..rrows |-> [j \in 1..width |-> flat[(i - 1) * width + j]]]
        \* the rank of output position p among the positions lora_ind marks
        rank(p) == Cardinality({q \in 1..p : lora.lora_ind[q]})
    IN  IF Len(flat) % width # 0 THEN ShapeErr
        ELSE IF rrows # Rows(x) /\ rrows # 1 THEN ShapeErr
        ELSE [i \in 1..Rows(x) |-> [p \in 1..out_features |->
                IF lora.lora_ind[p]
                THEN reshaped[IF rrows = 1 THEN 1 ELSE i][rank(p)]
                ELSE fill]]


-----------------------------------------------------------------------------
(* reset_lora and merge_lora: the outcome [exc, weight, merged] of a call *)

Outcome(e, w, m) == [exc |-> e, weight |-> w, merged |-> m]

\* the assignment self.weight.data = <value>: a shape error in computing the
\* value raises and assigns nothing
AssignWeight(value, m) ==
    IF IsErr(value) THEN Outcome("RuntimeError", weight, merged)
    ELSE Outcome("none", value, m)

\* delta_w of Linear.reset_lora and Linear.merge_lora
Linear_delta_w(lora) ==
    IF lora.no_decomposition THEN Flatten(lora.lora_A)
    ELSE T(MatMul(lora.lora_B, lora.lora_A))

\* delta_w of MergedLinear.reset_lora and MergedLinear.merge_lora
MergedLinear_delta_w(lora) ==
    IF lora.no_decomposition THEN Flatten(lora.lora_A)
    ELSE T(GroupedConv(lora.lora_A, lora.lora_B, CountTrue(lora.enable_lora)))

\* Linear.reset_lora
Linear_reset_lora ==
    IF ~Falsy(merged)
    THEN IF ~Present(merged) THEN Outcome("KeyError", weight, merged)
         ELSE LET lora == loras[merged]
              IN  IF lora.r > 0
                  THEN AssignWeight(com_inv(lora, weight, Linear_delta_w(lora)), None)
                  ELSE Outcome("none", weight, None)
    ELSE Outcome("none", weight, merged)

\* a merge_lora that folds the adapter in over an adapter already merged
Linear_merge_lora_over(name) ==
    IF Present(name)
    THEN IF merged = name THEN Outcome("none", weight, merged)
         ELSE LET lora == loras[name]
              IN  IF lora.r > 0
                  THEN AssignWeight(com(lora, weight, Linear_delta_w(lora)), name)
                  ELSE Outcome("none", weight, name)
    ELSE Outcome("none", weight, merged)

\* a merge_lora that marks a name merged though it has no module
Linear_merge_lora_marks(name) ==
    IF Present(name)
    THEN IF merged = name THEN Outcome("none", weight, merged)
         ELSE IF Falsy(merged)
         THEN LET lora == loras[name]
              IN  IF lora.r > 0
                  THEN AssignWeight(com(lora, weight, Linear_delta_w(lora)), name)
                  ELSE Outcome("none", weight, name)
         ELSE Outcome("ValueError", weight, merged)
    ELSE Outcome("none", weight, name)

\* a merge_lora that folds the merged adapter in once more
Linear_merge_lora_twice(name) ==
    IF Present(name)
    THEN IF merged = name \/ Falsy(merged)
         THEN LET lora == loras[name]
              IN  IF lora.r > 0
                  THEN AssignWeight(com(lora, weight, Linear_delta_w(lora)), name)
                  ELSE Outcome("none", weight, name)
         ELSE Outcome("ValueError", weight, merged)
    ELSE Outcome("none", weight, merged)

\* Linear.merge_lora
Linear_merge_lora(name) ==
    IF Present(name)
    THEN IF merged = name THEN Outcome("none", weight, merged)
         ELSE IF Falsy(merged)
         THEN LET lora == loras[name]
              IN  IF lora.r > 0
                  THEN AssignWeight(com(lora, weight, Linear_delta_w(lora)), name)
                  ELSE Outcome("none", weight, name)
         ELSE Outcome("ValueError", weight, merged)
    ELSE Outcome("none", weight, merged)

\* MergedLinear.reset_lora
MergedLinear_reset_lora ==
    IF ~Falsy(merged)
    THEN IF ~Present(merged) THEN Outcome("KeyError", weight, merged)
         ELSE LET lora == loras[merged]
              IN  IF lora.r > 0 /\ AnyTrue(lora.enable_lora)
                  THEN AssignWeight(com_inv(lora, weight,
                                            zero_pad(MergedLinear_delta_w(lora), lora)),
                                    None)
                  ELSE Outcome("none", weight, None)
    ELSE Outcome("none", weight, merged)

\* MergedLinear.merge_lora
MergedLinear_merge_lora(name) ==
    IF Present(name)
    THEN IF merged = name THEN Outcome("none", weight, merged)
         ELSE IF Falsy(merged)
         THEN LET lora == loras[name]
              IN  IF lora.r > 0 /\ AnyTrue(lora.enable_lora)
                  THEN AssignWeight(com(lora, weight,
                                        zero_pad(MergedLinear_delta_w(lora), lora)),
                                    name)
                  ELSE Outcome("none", weight, name)
         ELSE Outcome("ValueError", weight, merged)
    ELSE Outcome("none", weight, merged)

reset_lora == IF kind = "Linear" THEN Linear_reset_lora ELSE MergedLinear_reset_lora

merge_lora(name) ==
    IF kind = "Linear" THEN Linear_merge_lora(name) ELSE MergedLinear_merge_lora(name)


-----------------------------------------------------------------------------
(* forward: the possible outcomes [exc, out] of a call *)

Result(e, o) == [exc |-> e, out |-> o]

\* no tensor: the out field of a call that returns none
NoTensor == <<>>

Returned(t) == IF IsErr(t) THEN Result("RuntimeError", NoTensor) ELSE Result("none", t)

\* AdapterLayerBase.get_active_setup(self.loras): the active composition
\* restricted to the names present at this point, <<>> (None) when none is
get_active_setup(setup) ==
    SelectSeq(setup, LAMBDA n : n \in Names /\ Present(n))

\* lora.lora_dropout(x): the identity for dropout 0, else nn.Dropout in
\* training mode (the mode modules are constructed in), which zeroes each
\* element or scales it by 1 / (1 - p)
lora_dropout(lora, x) ==
    IF lora.dropout = Num(0) THEN {x}
    ELSE {[i \in 1..Rows(x) |-> [j \in 1..Cols(x) |->
             IF mask[i][j] THEN Num(0)
             ELSE FDiv(x[i][j], FSub(Num(1), lora.dropout))]] :
            mask \in [1..Rows(x) -> [1..Cols(x) -> BOOLEAN]]}

\* a base transform that drops the bias
base_linear_no_bias(x) == FLinear(x, T(weight), [i \in 1..1 |-> [j \in 1..Cols(bias) |-> Num(0)]])

\* F.linear(x, T(self.weight), bias=self.bias)
base_linear(x) == FLinear(x, T(weight), bias)

\* a forward that applies the active adapter whatever the merged marker
Linear_forward_on_merged(x, setup) ==
    LET adapter_setup == get_active_setup(setup) IN
    IF adapter_setup # <<>>
    THEN IF Len(adapter_setup) = 1
         THEN LET lora == loras[adapter_setup[1]]
              IN  IF lora.r > 0
                  THEN IF lora.no_decomposition
                       THEN {Returned(com(lora, base_linear(x), Flatten(lora.lora_A)))}
                       ELSE {Returned(com(lora, base_linear(x),
                                 MatMul(MatMul(d, Transpose(lora.lora_A)),
                                        Transpose(lora.lora_B)))) :
                               d \in lora_dropout(lora, x)}
                  ELSE {Returned(base_linear(x))}
         ELSE {Result("ValueError", NoTensor)}
    ELSE {Returned(base_linear(x))}

\* Linear.forward
Linear_forward(x, setup) ==
    LET adapter_setup == get_active_setup(setup) IN
    IF Falsy(merged) /\ adapter_setup # <<>>
    THEN IF Len(adapter_setup) = 1
         THEN LET lora == loras[adapter_setup[1]]
              IN  IF lora.r > 0
                  THEN IF lora.no_decomposition
                       THEN {Returned(com(lora, base_linear(x), Flatten(lora.lora_A)))}
                       ELSE {Returned(com(lora, base_linear(x),
                                 MatMul(MatMul(d, Transpose(lora.lora_A)),
                                        Transpose(lora.lora_B)))) :
                               d \in lora_dropout(lora, x)}
                  ELSE {Returned(base_linear(x))}
         ELSE {Result("ValueError", NoTensor)}
    ELSE {Returned(base_linear(x))}

\* MergedLinear.forward
MergedLinear_forward(x, setup) ==
    LET adapter_setup == get_active_setup(setup) IN
    IF Falsy(merged) /\ adapter_setup # <<>>
    THEN IF Len(adapter_setup) = 1
         THEN LET lora == loras[adapter_setup[1]]
              IN  IF lora.r > 0
                  THEN IF IsErr(base_linear(x)) THEN {Result("RuntimeError", NoTensor)}
                       ELSE IF lora.no_decomposition
                       THEN IF lora.lora_ind = NoAttr
                            THEN {Result("AttributeError", NoTensor)}
                            ELSE {Returned(com(lora, base_linear(x),
                                      zero_pad(Flatten(lora.lora_A), lora)))}
                       ELSE IF ~AnyTrue(lora.enable_lora)
                            THEN {Result("RuntimeError", NoTensor)}
                            ELSE {Returned(com(lora, base_linear(x),
                                      zero_pad(Transpose(GroupedConv(
                                          Transpose(FLinear(d, lora.lora_A,
                                                            <<<<Num(0)>>>>)),
                                          lora.lora_B, CountTrue(lora.enable_lora))),
                                        lora))) :
                                    d \in lora_dropout(lora, x)}
                  ELSE {Returned(base_linear(x))}
         ELSE {Result("ValueError", NoTensor)}
    ELSE {Returned(base_linear(x))}

forward(x, setup) ==
    IF kind = "Linear" THEN Linear_forward(x, setup) ELSE MergedLinear_forward(x, setup)


-----------------------------------------------------------------------------
(* The injection point as a state machine *)

LayerIdxs == {0}

\* no adapter was just added
NoAdd == [name |-> None]

\* what forward returns for every input and active composition
ForwardTable == [i \in Inputs \X Setups |-> forward(i[1], i[2])]

\* the record of a call: what was called with what, how it ended (l is the
\* adapter table it leaves), the weight, merged marker and bias it started
\* from, whether the named adapter was present, whether the adapter table is
\* left as it was, (for merge_lora) what forward returned before the call with
\* the named adapter as the one active adapter, (for delete_adapter) the record
\* of the adapter's add when only forward calls lie between its add and its
\* delete, and (for reset_lora) whether it directly follows the merge_lora that
\* set the marker
CallRec(op, name, exc, ret, out, x, setup, l) ==
    [op |-> op, name |-> name, exc |-> exc, ret |-> ret, out |-> out,
     x |-> x, setup |-> setup, w |-> weight, m |-> merged, b |-> bias,
     had |-> Present(name),
     kept |-> l = loras,
     fwd |-> IF op = "merge_lora" THEN [i \in Inputs |-> forward(i, <<name>>)] ELSE <<>>,
     snap |-> IF op = "delete_adapter" /\ since_add.name = name
              THEN since_add ELSE NoAdd,
     after_merge |-> /\ op = "reset_lora"
                     /\ last.op = "merge_lora"
                     /\ last.m # merged]

Record(rec) == last' = rec

\* no call yet
NoCall ==
    [op |-> "init", name |-> None, exc |-> "none", ret |-> None, out |-> NoTensor,
     x |-> NoTensor, setup |-> <<>>, w |-> NoTensor, m |-> None, b |-> NoTensor,
     had |-> FALSE, kept |-> TRUE, fwd |-> <<>>, snap |-> NoAdd, after_merge |-> FALSE]

\* the weight layouts a layer is built with. A MergedLinear wraps a fused
\* query/key/value projection whose weight is stored (fan_in, fan_out):
\* zero_pad scatters the delta along its last dimension, which is the output
\* dimension of the weight in that layout only.
Layouts(k) == IF k = "MergedLinear" THEN {TRUE} ELSE BOOLEAN

\* Linear.__init__ / MergedLinear.__init__ (with LoRALayer.__init__)
InitLayer ==
    /\ config_adapters \in {[n \in Names |-> IF n = "a" THEN ca ELSE cb] :
                               ca \in MatchResults, cb \in SecondConfigs}
    /\ kind \in {"Linear", "MergedLinear"}
    /\ fan_in_fan_out \in Layouts(kind)
    /\ attn_key \in IF kind = "Linear" THEN {"q", None} ELSE {None}
    /\ \E w \in IF kind = "Linear" THEN LinearWeights ELSE MergedWeights :
          /\ weight = IF fan_in_fan_out THEN Transpose(w) ELSE w
          /\ base = weight
    /\ bias \in IF kind = "Linear" THEN LinearBiases ELSE MergedBiases
    /\ layer_idx = None
    /\ loras = [n \in Names |-> NoModule]
    /\ merged = False
    /\ premerge = weight
    /\ pure = TRUE
    /\ n_adds = 0
    /\ since_add = NoAdd
    /\ last = NoCall

\* add_adapter(adapter_name, layer_idx)
AddAdapter ==
    \E adapter_name \in Names, idx \in LayerIdxs :
      \E o \in IF kind = "Linear"
               THEN LoRALayer_add_adapter(adapter_name, match(adapter_name, idx))
               ELSE MergedLinear_add_adapter(adapter_name, match(adapter_name, idx)) :
        /\ n_adds < MaxAdds
        /\ n_adds' = n_adds + 1
        /\ layer_idx' = idx
        /\ loras' = o.loras
        /\ pure' = (pure /\ ~Present(adapter_name))
        /\ since_add' = IF ~Present(adapter_name) /\ o.loras[adapter_name] # NoModule
                        THEN [name |-> adapter_name, used |-> FALSE, fwd |-> ForwardTable]
                        ELSE NoAdd
        /\ Record(CallRec("add_adapter", adapter_name, o.exc, o.ret,
                          NoTensor, NoTensor, <<>>, o.loras))
        /\ UNCHANGED <<config_adapters, kind, attn_key, fan_in_fan_out, weight, bias, merged,
                       base, premerge>>

\* delete_adapter(adapter_name)
DeleteAdapter ==
    \E adapter_name \in Names :
        /\ loras' = LoRALayer_delete_adapter(adapter_name)
        /\ pure' = FALSE
        /\ since_add' = NoAdd
        /\ Record(CallRec("delete_adapter", adapter_name, "none", None,
                          NoTensor, NoTensor, <<>>,
                          LoRALayer_delete_adapter(adapter_name)))
        /\ UNCHANGED <<config_adapters, kind, attn_key, fan_in_fan_out, layer_idx, weight, bias,
                       merged, base, premerge, n_adds>>

\* reset_lora()
ResetLora ==
    LET o == reset_lora IN
        /\ weight' = o.weight
        /\ merged' = o.merged
        /\ Record(CallRec("reset_lora", None, o.exc, None, NoTensor, NoTensor, <<>>, loras))
        /\ since_add' = NoAdd
        /\ UNCHANGED <<config_adapters, kind, attn_key, fan_in_fan_out, layer_idx, bias, loras,
                       base, premerge, pure, n_adds>>

\* merge_lora(name)
MergeLora ==
    \E name \in Names :
      LET o == merge_lora(name) IN
        /\ weight' = o.weight
        /\ merged' = o.merged
        /\ premerge' = IF o.merged # merged THEN weight ELSE premerge
        /\ Record(CallRec("merge_lora", name, o.exc, None, NoTensor, NoTensor, <<>>, loras))
        /\ since_add' = NoAdd
        /\ UNCHANGED <<config_adapters, kind, attn_key, fan_in_fan_out, layer_idx, bias, loras,
                       base, pure, n_adds>>

\* forward(x) under an active composition
Forward ==
    \E x \in Inputs, setup \in Setups :
      \E o \in forward(x, setup) :
        /\ Record(CallRec("forward", None, o.exc, None, o.out, x, setup, loras))
        /\ since_add' = IF since_add # NoAdd /\ setup = <<since_add.name>>
                        THEN [since_add EXCEPT !.used = TRUE]
                        ELSE since_add
        /\ UNCHANGED <<config_adapters, kind, attn_key, fan_in_fan_out, layer_idx, weight, bias,
                       loras, merged, base, premerge, pure, n_adds>>


-----------------------------------------------------------------------------
(* A model with flexible prediction heads (ModelWithFlexibleHeadsAdaptersMixin) *)

VARIABLES
    heads,             \* self.heads: head name -> head
    active_head,       \* self._active_head
    prediction_heads,  \* self.config.prediction_heads: head name -> head config
    config_label2id,   \* self.config.label2id
    config_id2label,   \* self.config.id2label
    active_adapters,   \* self.active_adapters: the active composition block
    head_last          \* history: the last call on the model and how it ended

head_vars == <<heads, active_head, prediction_heads, config_label2id, config_id2label,
               active_adapters, head_last>>

\* the names heads are registered under, and the names callers pass: no name
\* (None), the empty string, registered names and a name never registered
HeadNames == {"a", "h"}

HeadNameArgs == {None, "", "a", "h", "x"}

\* Python truthiness of a head name
Truthy(name) == name # None /\ name # ""

\* a label2id entry that is None
NoneMap == [none |-> TRUE]

\* a default label map that counts from 1
DefaultLabel2Id_from_one(n) ==
    [l \in {<<"LABEL_0", "LABEL_1", "LABEL_2">>[i] : i \in 1..n} |->
        CHOOSE i \in 1..n : <<"LABEL_0", "LABEL_1", "LABEL_2">>[i] = l]

\* {"LABEL_" + str(num): num for num in range(n)}
DefaultLabel2Id(n) ==
    [l \in {<<"LABEL_0", "LABEL_1", "LABEL_2">>[i] : i \in 1..n} |->
        CHOOSE i \in 0..(n - 1) : <<"LABEL_0", "LABEL_1", "LABEL_2">>[i + 1] = l]

\* {id_: label for label, id_ in label2id.items()}
Inverse(label2id) ==
    [i \in {label2id[l] : l \in DOMAIN label2id} |->
        CHOOSE l \in DOMAIN label2id : label2id[l] = i]

\* the configs of the heads a caller constructs: built-in heads with and
\* without an id2label, a multiple choice head, and custom heads whose config
\* has no label count and no (or a None) label2id, or a label count only
HeadConfigs ==
    {[head_type |-> "classification", num_labels |-> 2, label2id |-> NoneMap],
     [head_type |-> "classification", num_labels |-> 2,
      label2id |-> [neg |-> 0, pos |-> 1]],
     [head_type |-> "multiple_choice", num_choices |-> 3, label2id |-> NoneMap],
     [head_type |-> "custom"],
     [head_type |-> "custom", label2id |-> NoneMap],
     [head_type |-> "custom", num_labels |-> 3]}

Heads == {[name |-> n, config |-> c] : n \in HeadNames, c \in HeadConfigs}

\* model outputs handed to a head
Outputs == {[last_hidden_state |-> "h1"], [last_hidden_state |-> "h2"]}

\* what a call returns when it returns nothing or raises
NoValue == [none |-> TRUE]

\* head(all_outputs, cls_output, attention_mask, return_dict): the result of
\* this head applied to these outputs
HeadCall(head, all_outputs) == [head |-> head, outputs |-> all_outputs]

\* c with c[key] = value
SetItem(c, key, value) ==
    [k \in DOMAIN c \cup {key} |-> IF k = key THEN value ELSE c[k]]

\* the outcome of a call on the model
HeadOutcome(e, r, hs, ah, ph, l2i, i2l) ==
    [exc |-> e, ret |-> r, heads |-> hs, active_head |-> ah, prediction_heads |-> ph,
     config_label2id |-> l2i, config_id2label |-> i2l]

\* get_labels_dict(head_name) for a registered head_name, on the head table hs
get_labels_dict(hs, head_name) ==
    IF "label2id" \in DOMAIN hs[head_name].config
    THEN IF hs[head_name].config.label2id = NoneMap
         THEN [exc |-> "AttributeError", ret |-> NoValue]
         ELSE [exc |-> "none", ret |-> Inverse(hs[head_name].config.label2id)]
    ELSE [exc |-> "none", ret |-> NoneMap]

\* a setter that makes every name the active head's name and reads the
\* labels of registered heads only
set_active_head_any(hs, ph, head_name) ==
    IF head_name # None /\ head_name \in DOMAIN hs
    THEN IF "label2id" \notin DOMAIN hs[head_name].config
         THEN HeadOutcome("KeyError", NoValue, hs, head_name, ph,
                          config_label2id, config_id2label)
         ELSE HeadOutcome("none", NoValue, hs, head_name, ph,
                          config_label2id, config_id2label)
    ELSE HeadOutcome("none", NoValue, hs, head_name, ph, config_label2id, config_id2label)

\* the active_head setter, on the head table hs and config entries ph
set_active_head(hs, ph, head_name) ==
    IF head_name # None /\ head_name \in DOMAIN hs
    THEN IF "label2id" \notin DOMAIN hs[head_name].config
         THEN HeadOutcome("KeyError", NoValue, hs, head_name, ph,
                          config_label2id, config_id2label)
         ELSE LET labels == get_labels_dict(hs, head_name)
              IN  IF labels.exc # "none"
                  THEN HeadOutcome(labels.exc, NoValue, hs, head_name, ph,
                                   hs[head_name].config.label2id, config_id2label)
                  ELSE HeadOutcome("none", NoValue, hs, head_name, ph,
                                   hs[head_name].config.label2id, labels.ret)
    ELSE HeadOutcome("none", NoValue, hs, head_name, ph, config_label2id, config_id2label)

\* no active composition block
NoBlock == [none |-> TRUE]

\* what callers pass to set_active_adapters: None, one adapter name, or a list
\* of adapter names (a Stack), possibly empty
SetupArgs ==
    {[none |-> TRUE], [name |-> "a"]}
    \cup {[list |-> l] : l \in {<<>>, <<"a", "h">>, <<"h", "x">>}}

\* self.base_model.set_active_adapters(adapter_setup): the composition block
\* built from the argument replaces the active one
base_set_active_adapters(adapter_setup) ==
    IF "none" \in DOMAIN adapter_setup THEN NoBlock
    ELSE IF "name" \in DOMAIN adapter_setup THEN [children |-> <<adapter_setup.name>>]
    ELSE [children |-> adapter_setup.list]

\* bool(block): None and a block without children are falsy
BlockTruthy(block) == block # NoBlock /\ Len(block.children) > 0

\* block.last(): the last leaf of a block of names
BlockLast(block) == block.children[Len(block.children)]

\* a set_active_adapters that activates the head named last in the block
\* whether it is registered or not
set_active_adapters_unchecked(adapter_setup) ==
    LET block == base_set_active_adapters(adapter_setup)
    IN  [active_adapters |-> block,
         heads |-> IF BlockTruthy(block)
                   THEN set_active_head(heads, prediction_heads, BlockLast(block))
                   ELSE HeadOutcome("none", NoValue, heads, active_head, prediction_heads,
                                    config_label2id, config_id2label)]

\* a set_active_adapters that activates the head named by the first adapter
set_active_adapters_first(adapter_setup) ==
    LET block == base_set_active_adapters(adapter_setup)
    IN  [active_adapters |-> block,
         heads |-> IF BlockTruthy(block) /\ block.children[1] \in DOMAIN heads
                   THEN set_active_head(heads, prediction_heads, block.children[1])
                   ELSE HeadOutcome("none", NoValue, heads, active_head, prediction_heads,
                                    config_label2id, config_id2label)]

\* set_active_adapters(adapter_setup): the new active block and the outcome
\* on the heads
set_active_adapters(adapter_setup) ==
    LET block == base_set_active_adapters(adapter_setup)
    IN  [active_adapters |-> block,
         heads |-> IF BlockTruthy(block) /\ BlockLast(block) \in DOMAIN heads
                   THEN set_active_head(heads, prediction_heads, BlockLast(block))
                   ELSE HeadOutcome("none", NoValue, heads, active_head, prediction_heads,
                                    config_label2id, config_id2label)]

\* an add_prediction_head that overwrites whatever it is told
add_prediction_head_overwrites(head, overwrite_ok) ==
    LET c0 == head.config
        c1 == IF "label2id" \notin DOMAIN c0 \/ c0.label2id = NoneMap
              THEN LET c == IF "num_labels" \in DOMAIN c0
                            THEN SetItem(c0, "label2id", DefaultLabel2Id(c0.num_labels))
                            ELSE c0
                   IN  IF "num_choices" \in DOMAIN c
                       THEN SetItem(c, "label2id", DefaultLabel2Id(c.num_choices))
                       ELSE c
              ELSE c0
        hs == SetItem(heads, head.name, [name |-> head.name, config |-> c1])
        ph == SetItem(prediction_heads, head.name, c1)
    IN  set_active_head(hs, ph, head.name)

\* add_prediction_head(head, overwrite_ok) on a model whose head table is
\* hs0, whose config entries are ph0 and whose active head is ah0
add_prediction_head_on(hs0, ph0, ah0, head, overwrite_ok) ==
    IF head.name \notin DOMAIN hs0 \/ overwrite_ok
    THEN LET c0 == head.config
             c1 == IF "label2id" \notin DOMAIN c0 \/ c0.label2id = NoneMap
                   THEN LET c == IF "num_labels" \in DOMAIN c0
                                 THEN SetItem(c0, "label2id", DefaultLabel2Id(c0.num_labels))
                                 ELSE c0
                        IN  IF "num_choices" \in DOMAIN c
                            THEN SetItem(c, "label2id", DefaultLabel2Id(c.num_choices))
                            ELSE c
                   ELSE c0
             hs == SetItem(hs0, head.name, [name |-> head.name, config |-> c1])
             ph == SetItem(ph0, head.name, c1)
         IN  set_active_head(hs, ph, head.name)
    ELSE HeadOutcome("ValueError", NoValue, hs0, ah0, ph0,
                     config_label2id, config_id2label)

\* add_prediction_head(head, overwrite_ok)
add_prediction_head(head, overwrite_ok) ==
    add_prediction_head_on(heads, prediction_heads, active_head, head, overwrite_ok)

\* get_prediction_heads_config() of a model whose head table is hs
get_prediction_heads_config(hs) == [head_name \in DOMAIN hs |-> hs[head_name].config]

\* a rebuilding of a head from its head type and sizes alone, the label map
\* of the saved config left out
add_prediction_head_from_sizes(hs, ph, ah, head_name, config, overwrite_ok) ==
    add_prediction_head_on(hs, ph, ah,
        [name |-> head_name,
         config |-> [k \in DOMAIN config |->
                       IF k = "label2id" THEN NoneMap ELSE config[k]]],
        overwrite_ok)

\* add_prediction_head_from_config(head_name, config, overwrite_ok): builds
\* the head of this name and config and registers it
add_prediction_head_from_config(hs, ph, ah, head_name, config, overwrite_ok) ==
    add_prediction_head_on(hs, ph, ah, [name |-> head_name, config |-> config],
                           overwrite_ok)

\* the loop of _init_head_modules over the entries of config.prediction_heads
\* in the order given, from the outcome o of the entries before; an
\* exception ends it
RECURSIVE init_head_modules(_, _)
init_head_modules(o, order) ==
    IF order = <<>> \/ o.exc # "none" THEN o
    ELSE init_head_modules(
             add_prediction_head_from_config(o.heads, o.prediction_heads, o.active_head,
                                             Head(order),
                                             o.prediction_heads[Head(order)], FALSE),
             Tail(order))

\* AutoModelWithHeads.from_pretrained(dir) after save_pretrained(dir) of a
\* model whose config holds the entries saved: __init__ and
\* _init_head_modules on the config read back
from_pretrained(saved, order) ==
    init_head_modules(HeadOutcome("none", NoValue, <<>>, None, saved,
                                  config_label2id, config_id2label),
                      order)

\* a forward_head that uses head_name only
forward_head_no_fallback(all_outputs, head_name) ==
    IF ~Truthy(head_name) THEN [exc |-> "none", ret |-> all_outputs]
    ELSE IF head_name \notin DOMAIN heads THEN [exc |-> "ValueError", ret |-> NoValue]
    ELSE [exc |-> "none", ret |-> HeadCall(heads[head_name], all_outputs)]

\* forward_head(all_outputs, head_name)
forward_head(all_outputs, head_name) ==
    LET name == IF Truthy(head_name) THEN head_name ELSE active_head
    IN  IF ~Truthy(name) THEN [exc |-> "none", ret |-> all_outputs]
        ELSE IF name \notin DOMAIN heads THEN [exc |-> "ValueError", ret |-> NoValue]
        ELSE [exc |-> "none", ret |-> HeadCall(heads[name], all_outputs)]

\* the end of T5AdapterModel.forward, from the model output on
T5AdapterModel_forward(model_output, head) ==
    IF Truthy(head) \/ Truthy(active_head)
    THEN forward_head(model_output, head)
    ELSE [exc |-> "none", ret |-> model_output]

\* the record of a call on the model: what was called with what, how it
\* ended, and the active head, head table and config entries it started from
HeadCallRec(op, name, arg, exc, ret) ==
    [op |-> op, name |-> name, arg |-> arg, exc |-> exc, ret |-> ret,
     active |-> active_head, heads |-> heads, ph |-> prediction_heads]

\* ModelWithFlexibleHeadsAdaptersMixin.__init__ and _init_head_modules, for
\* a config that holds no heads
InitHeads ==
    /\ heads = <<>>
    /\ active_head = None
    /\ prediction_heads = <<>>
    /\ config_label2id = DefaultLabel2Id(2)
    /\ config_id2label = Inverse(DefaultLabel2Id(2))
    /\ active_adapters = NoBlock
    /\ head_last = [op |-> "init", name |-> None, arg |-> None, exc |-> "none",
                    ret |-> NoValue, active |-> None, heads |-> <<>>, ph |-> <<>>]

ApplyHeadOutcome(o) ==
    /\ heads' = o.heads
    /\ active_head' = o.active_head
    /\ prediction_heads' = o.prediction_heads
    /\ config_label2id' = o.config_label2id
    /\ config_id2label' = o.config_id2label

\* model.add_prediction_head(head, overwrite_ok)
AddPredictionHead ==
    \E head \in Heads, overwrite_ok \in BOOLEAN :
      LET o == add_prediction_head(head, overwrite_ok) IN
        /\ ApplyHeadOutcome(o)
        /\ head_last' = HeadCallRec("add_prediction_head", head.name,
                                    [head |-> head, overwrite_ok |-> overwrite_ok],
                                    o.exc, NoValue)
        /\ UNCHANGED <<active_adapters, lora_vars>>

\* the orders in which a dict with these keys can hold them
Orders(keys) ==
    {order \in UNION {[1..n -> keys] : n \in {Cardinality(keys)}} :
        {order[i] : i \in DOMAIN order} = keys}

\* model.save_pretrained(dir); model = AutoModelWithHeads.from_pretrained(dir)
FromPretrained ==
    \E order \in Orders(DOMAIN prediction_heads) :
      LET o == from_pretrained(prediction_heads, order) IN
        /\ IF o.exc = "none"
           THEN ApplyHeadOutcome(o) /\ active_adapters' = NoBlock
           ELSE UNCHANGED <<heads, active_head, prediction_heads, config_label2id,
                            config_id2label, active_adapters>>
        /\ head_last' = HeadCallRec("from_pretrained", None, order, o.exc, NoValue)
        /\ UNCHANGED lora_vars

\* model.active_head = head_name
SetActiveHead ==
    \E head_name \in HeadNameArgs :
      LET o == set_active_head(heads, prediction_heads, head_name) IN
        /\ ApplyHeadOutcome(o)
        /\ head_last' = HeadCallRec("active_head", head_name, None, o.exc, NoValue)
        /\ UNCHANGED <<active_adapters, lora_vars>>

\* model.set_active_adapters(adapter_setup)
SetActiveAdapters ==
    \E adapter_setup \in SetupArgs :
      LET o == set_active_adapters(adapter_setup) IN
        /\ ApplyHeadOutcome(o.heads)
        /\ active_adapters' = o.active_adapters
        /\ head_last' = HeadCallRec("set_active_adapters", None, adapter_setup,
                                    o.heads.exc, NoValue)
        /\ UNCHANGED lora_vars

\* model.forward_head(all_outputs, head_name)
ForwardHead ==
    \E all_outputs \in Outputs, head_name \in HeadNameArgs :
      LET o == forward_head(all_outputs, head_name) IN
        /\ head_last' = HeadCallRec("forward_head", head_name, all_outputs, o.exc, o.ret)
        /\ UNCHANGED <<heads, active_head, prediction_heads, config_label2id,
                       config_id2label, active_adapters>>
        /\ UNCHANGED lora_vars

\* model(..., head=head), from the model output on
T5Forward ==
    \E model_output \in Outputs, head \in HeadNameArgs :
      LET o == T5AdapterModel_forward(model_output, head) IN
        /\ head_last' = HeadCallRec("forward", head, model_output, o.exc, o.ret)
        /\ UNCHANGED <<heads, active_head, prediction_heads, config_label2id,
                       config_id2label, active_adapters>>
        /\ UNCHANGED lora_vars


-----------------------------------------------------------------------------
(* The registry of adapters and fusions of a model (ModelAdaptersConfig) *)

VARIABLES
    adapters,           \* self.adapters: adapter name -> config name
    config_map,         \* self.config_map: config name -> config
    fusions,            \* self.fusions: fusion name -> config name
    fusion_config_map,  \* self.fusion_config_map: config name -> fusion config
    added_with,         \* history: adapter name -> what it was added with
    reg_last            \* history: the last call on the registry and how it ended

reg_vars == <<adapters, config_map, fusions, fusion_config_map, added_with, reg_last>>

\* the built-in presets, by the fields the model follows
ADAPTER_CONFIG_MAP ==
    [n \in {"pfeiffer", "houlsby", "pfeiffer+inv", "houlsby+inv"} |->
       [non_linearity |-> IF n \in {"pfeiffer", "pfeiffer+inv"} THEN "relu" ELSE "swish",
        reduction_factor |-> 16,
        inv_adapter |-> IF n \in {"pfeiffer+inv", "houlsby+inv"} THEN "nice" ELSE None]]

DEFAULT_ADAPTER_CONFIG == "pfeiffer"

ADAPTERFUSION_CONFIG_MAP ==
    [n \in {"static", "dynamic"} |->
       IF n = "static" THEN [value |-> FALSE, regularization |-> FALSE]
       ELSE [value |-> TRUE, regularization |-> TRUE]]

DEFAULT_ADAPTERFUSION_CONFIG == "dynamic"

\* a mapping without entries, {}
EmptyConfig == <<>>

\* anonymous (mapping) configs: the second differs from the first in one
\* field, the third from the second in one other field
AnonConfigs ==
    {[non_linearity |-> "relu", reduction_factor |-> 16],
     [non_linearity |-> "relu", reduction_factor |-> 8],
     [non_linearity |-> "tanh", reduction_factor |-> 8]}

AnonFusionConfigs == {[value |-> TRUE, regularization |-> FALSE]}

\* get_adapter_config_hash(config): a digest of the content of the config,
\* the same for equal contents and different for different ones
get_adapter_config_hash(config) ==
    IF DOMAIN config = {} THEN "h:"
    ELSE IF "non_linearity" \in DOMAIN config
    THEN "h:" \o config.non_linearity \o ":"
              \o (IF config.reduction_factor = 16 THEN "16" ELSE "8")
    ELSE "h:" \o (IF config.value THEN "v1" ELSE "v0")
              \o (IF config.regularization THEN "r1" ELSE "r0")

\* the config arguments of add: None, a string, a mapping, or something else
ConfigArgs ==
    {[none |-> TRUE], [other |-> 5]}
    \cup {[str |-> x] : x \in {"pfeiffer", "nope",
                                get_adapter_config_hash(
                                    [non_linearity |-> "relu", reduction_factor |-> 8])}}
    \cup {[map |-> c] : c \in AnonConfigs \cup {EmptyConfig}}

FusionConfigArgs ==
    {[none |-> TRUE], [other |-> 5]}
    \cup {[str |-> x] : x \in {"nope"}
                              \cup {get_adapter_config_hash(c) : c \in AnonFusionConfigs}}
    \cup {[map |-> c] : c \in AnonFusionConfigs}

AdapterNames == {"a", "b", "c"}

\* the adapter_names and attribute arguments of common_config_value
NameLists == {<<>>, <<"a">>, <<"a", "b">>, <<"c", "a", "b">>}

ConfigAttributes == {"reduction_factor", "inv_adapter"}

\* the fusion name arguments: lists of adapter names, and a plain string
FusionNameArgs ==
    {[list |-> l] : l \in {<<"a", "b">>, <<"b", "a">>}} \cup {[str |-> "a,b"]}

\* ",".join(names)
RECURSIVE Join(_)
Join(names) ==
    IF Len(names) = 0 THEN ""
    ELSE IF Len(names) = 1 THEN names[1]
    ELSE names[1] \o "," \o Join(Tail(names))

\* if isinstance(fusion_name, list): fusion_name = ",".join(fusion_name)
FusionKey(fusion_name) ==
    IF "list" \in DOMAIN fusion_name THEN Join(fusion_name.list) ELSE fusion_name.str

\* the outcome of a call on the registry
RegOutcome(e, r, a, cm, f, fcm) ==
    [exc |-> e, ret |-> r, adapters |-> a, config_map |-> cm, fusions |-> f,
     fusion_config_map |-> fcm]

RegRaise(e) == RegOutcome(e, NoValue, adapters, config_map, fusions, fusion_config_map)

\* a get that knows the built-in presets only
ModelAdaptersConfig_get_presets(adapter_name) ==
    IF adapter_name \in DOMAIN adapters
    THEN LET config_name == adapters[adapter_name]
         IN  IF config_name \in DOMAIN ADAPTER_CONFIG_MAP
             THEN ADAPTER_CONFIG_MAP[config_name]
             ELSE NoValue
    ELSE NoValue

\* ModelAdaptersConfig.get(adapter_name)
ModelAdaptersConfig_get(adapter_name) ==
    IF adapter_name \in DOMAIN adapters
    THEN LET config_name == adapters[adapter_name]
         IN  IF config_name \in DOMAIN config_map THEN config_map[config_name]
             ELSE IF config_name \in DOMAIN ADAPTER_CONFIG_MAP
                  THEN ADAPTER_CONFIG_MAP[config_name]
                  ELSE NoValue
    ELSE NoValue

\* an add that files a mapping config under the adapter's name
ModelAdaptersConfig_add_by_name(adapter_name, config) ==
    IF adapter_name \in DOMAIN adapters THEN RegRaise("ValueError")
    ELSE LET cfg == IF "none" \in DOMAIN config THEN [str |-> DEFAULT_ADAPTER_CONFIG]
                    ELSE config
         IN  IF "str" \in DOMAIN cfg
             THEN IF cfg.str \notin DOMAIN ADAPTER_CONFIG_MAP /\ cfg.str \notin DOMAIN config_map
                  THEN RegRaise("ValueError")
                  ELSE RegOutcome("none", NoValue, SetItem(adapters, adapter_name, cfg.str),
                                  config_map, fusions, fusion_config_map)
             ELSE IF "map" \in DOMAIN cfg
             THEN RegOutcome("none", NoValue,
                             SetItem(adapters, adapter_name, "h:" \o adapter_name),
                             SetItem(config_map, "h:" \o adapter_name, cfg.map),
                             fusions, fusion_config_map)
             ELSE RegRaise("ValueError")

\* an add that lets a registered name be added again
ModelAdaptersConfig_add_again(adapter_name, config) ==
    LET cfg == IF "none" \in DOMAIN config THEN [str |-> DEFAULT_ADAPTER_CONFIG]
               ELSE config
    IN  IF "str" \in DOMAIN cfg
        THEN IF cfg.str \notin DOMAIN ADAPTER_CONFIG_MAP /\ cfg.str \notin DOMAIN config_map
             THEN RegRaise("ValueError")
             ELSE RegOutcome("none", NoValue, SetItem(adapters, adapter_name, cfg.str),
                             config_map, fusions, fusion_config_map)
        ELSE IF "map" \in DOMAIN cfg
        THEN LET config_name == get_adapter_config_hash(cfg.map)
             IN  RegOutcome("none", NoValue,
                            SetItem(adapters, adapter_name, config_name),
                            SetItem(config_map, config_name, cfg.map),
                            fusions, fusion_config_map)
        ELSE RegRaise("ValueError")

\* ModelAdaptersConfig.add(adapter_name, config)
ModelAdaptersConfig_add(adapter_name, config) ==
    IF adapter_name \in DOMAIN adapters THEN RegRaise("ValueError")
    ELSE LET cfg == IF "none" \in DOMAIN config THEN [str |-> DEFAULT_ADAPTER_CONFIG]
                    ELSE config
         IN  IF "str" \in DOMAIN cfg
             THEN IF cfg.str \notin DOMAIN ADAPTER_CONFIG_MAP /\ cfg.str \notin DOMAIN config_map
                  THEN RegRaise("ValueError")
                  ELSE RegOutcome("none", NoValue, SetItem(adapters, adapter_name, cfg.str),
                                  config_map, fusions, fusion_config_map)
             ELSE IF "map" \in DOMAIN cfg
             THEN LET config_name == get_adapter_config_hash(cfg.map)
                  IN  RegOutcome("none", NoValue,
                                 SetItem(adapters, adapter_name, config_name),
                                 SetItem(config_map, config_name, cfg.map),
                                 fusions, fusion_config_map)
             ELSE RegRaise("ValueError")

\* config.get(attribute, None); None is NoValue, any other value v is [val |-> v]
config_get(config, attribute) ==
    IF attribute \notin DOMAIN config THEN NoValue
    ELSE IF attribute = "inv_adapter" /\ config[attribute] = None THEN NoValue
    ELSE [val |-> config[attribute]]

\* ModelAdaptersConfig.common_config_value(adapter_names, attribute), from
\* the i-th name on with the value found so far
RECURSIVE common_config_value(_, _, _, _)
common_config_value(adapter_names, attribute, i, common_value) ==
    IF i > Len(adapter_names)
    THEN [RegRaise("none") EXCEPT !.ret = common_value]
    ELSE LET config == ModelAdaptersConfig_get(adapter_names[i])
         IN  \* if not config: None, and a mapping without entries
             IF config = NoValue \/ DOMAIN config = {}
             THEN RegRaise("ValueError")
             ELSE LET config_value == config_get(config, attribute)
                  IN  IF i > 1 /\ config_value # common_value
                      THEN RegRaise("ValueError")
                      ELSE common_config_value(adapter_names, attribute, i + 1,
                                               config_value)

\* ModelAdaptersConfig.get_fusion(fusion_name)
ModelAdaptersConfig_get_fusion(fusion_name) ==
    LET name == FusionKey(fusion_name)
    IN  IF name \in DOMAIN fusions
        THEN LET config_name == fusions[name]
             IN  IF config_name \in DOMAIN fusion_config_map
                 THEN fusion_config_map[config_name]
                 ELSE IF config_name \in DOMAIN ADAPTERFUSION_CONFIG_MAP
                      THEN ADAPTERFUSION_CONFIG_MAP[config_name]
                      ELSE NoValue
        ELSE NoValue

\* an add_fusion that takes every string for a config name
ModelAdaptersConfig_add_fusion_any(fusion_name, config) ==
    LET name == FusionKey(fusion_name)
    IN  IF name \in DOMAIN fusions THEN RegRaise("ValueError")
        ELSE LET cfg == IF "none" \in DOMAIN config
                        THEN [str |-> DEFAULT_ADAPTERFUSION_CONFIG]
                        ELSE config
             IN  IF "str" \in DOMAIN cfg
                 THEN RegOutcome("none", NoValue, adapters, config_map,
                                 SetItem(fusions, name, cfg.str), fusion_config_map)
                 ELSE IF "map" \in DOMAIN cfg
                 THEN LET config_name == get_adapter_config_hash(cfg.map)
                      IN  RegOutcome("none", NoValue, adapters, config_map,
                                     SetItem(fusions, name, config_name),
                                     SetItem(fusion_config_map, config_name, cfg.map))
                 ELSE RegRaise("ValueError")

\* ModelAdaptersConfig.add_fusion(fusion_name, config)
ModelAdaptersConfig_add_fusion(fusion_name, config) ==
    LET name == FusionKey(fusion_name)
    IN  IF name \in DOMAIN fusions THEN RegRaise("ValueError")
        ELSE LET cfg == IF "none" \in DOMAIN config
                        THEN [str |-> DEFAULT_ADAPTERFUSION_CONFIG]
                        ELSE config
             IN  IF "str" \in DOMAIN cfg
                 THEN IF /\ cfg.str \notin DOMAIN ADAPTERFUSION_CONFIG_MAP
                         /\ cfg.str \notin DOMAIN fusion_config_map
                      THEN RegRaise("ValueError")
                      ELSE RegOutcome("none", NoValue, adapters, config_map,
                                      SetItem(fusions, name, cfg.str), fusion_config_map)
                 ELSE IF "map" \in DOMAIN cfg
                 THEN LET config_name == get_adapter_config_hash(cfg.map)
                      IN  RegOutcome("none", NoValue, adapters, config_map,
                                     SetItem(fusions, name, config_name),
                                     SetItem(fusion_config_map, config_name, cfg.map))
                 ELSE RegRaise("ValueError")

\* the record of a call on the registry: what was called with what, how it
\* ended, whether the name was registered and a string config was a known
\* key when it was called, and whether it left the four maps as they were
RegCallRec(op, name, config, o) ==
    [op |-> op, name |-> name, config |-> config, exc |-> o.exc, ret |-> o.ret,
     had |-> IF op \in {"add", "get"} THEN name \in DOMAIN adapters
             ELSE FusionKey(name) \in DOMAIN fusions,
     known |-> /\ "str" \in DOMAIN config
               /\ IF op = "add"
                  THEN config.str \in DOMAIN ADAPTER_CONFIG_MAP \cup DOMAIN config_map
                  ELSE config.str \in DOMAIN ADAPTERFUSION_CONFIG_MAP
                                      \cup DOMAIN fusion_config_map,
     fusions |-> fusions,
     kept |-> /\ o.adapters = adapters
              /\ o.config_map = config_map
              /\ o.fusions = fusions
              /\ o.fusion_config_map = fusion_config_map]

ApplyRegOutcome(o) ==
    /\ adapters' = o.adapters
    /\ config_map' = o.config_map
    /\ fusions' = o.fusions
    /\ fusion_config_map' = o.fusion_config_map

\* ModelAdaptersConfig.__init__ without arguments
InitRegistry ==
    /\ adapters = <<>>
    /\ config_map = <<>>
    /\ fusions = <<>>
    /\ fusion_config_map = <<>>
    /\ added_with = <<>>
    /\ reg_last = [op |-> "init", name |-> None, config |-> [none |-> TRUE],
                   exc |-> "none", ret |-> NoValue, had |-> FALSE, known |-> FALSE,
                   fusions |-> <<>>, kept |-> TRUE]

\* config.adapters.add(adapter_name, config)
RegAdd ==
    \E adapter_name \in AdapterNames, config \in ConfigArgs :
      LET o == ModelAdaptersConfig_add(adapter_name, config) IN
        /\ ApplyRegOutcome(o)
        /\ added_with' =
             IF o.exc = "none"
             THEN SetItem(added_with, adapter_name,
                     \* whether an anonymous mapping was supplied, the config
                     \* name the call gave the adapter, and the config that
                     \* was supplied or that the supplied name stood for
                     [anon |-> "map" \in DOMAIN config,
                      name |-> o.adapters[adapter_name],
                      config |-> IF "map" \in DOMAIN config THEN config.map
                                 ELSE IF "none" \in DOMAIN config
                                 THEN ADAPTER_CONFIG_MAP[DEFAULT_ADAPTER_CONFIG]
                                 ELSE IF config.str \in DOMAIN config_map
                                 THEN config_map[config.str]
                                 ELSE ADAPTER_CONFIG_MAP[config.str]])
             ELSE added_with
        /\ reg_last' = RegCallRec("add", adapter_name, config, o)

\* config.adapters.get(adapter_name)
RegGet ==
    \E adapter_name \in AdapterNames :
        /\ reg_last' = RegCallRec("get", adapter_name, [none |-> TRUE],
                                  [RegRaise("none") EXCEPT
                                     !.ret = ModelAdaptersConfig_get(adapter_name)])
        /\ UNCHANGED <<adapters, config_map, fusions, fusion_config_map, added_with>>

\* config.adapters.add_fusion(fusion_name, config)
RegAddFusion ==
    \E fusion_name \in FusionNameArgs, config \in FusionConfigArgs :
      LET o == ModelAdaptersConfig_add_fusion(fusion_name, config) IN
        /\ ApplyRegOutcome(o)
        /\ reg_last' = RegCallRec("add_fusion", fusion_name, config, o)
        /\ UNCHANGED added_with

\* config.adapters.common_config_value(adapter_names, attribute)
RegCommonConfigValue ==
    \E adapter_names \in NameLists, attribute \in ConfigAttributes :
        /\ reg_last' = RegCallRec("common_config_value", [list |-> adapter_names],
                                  [str |-> attribute],
                                  common_config_value(adapter_names, attribute, 1, NoValue))
        /\ UNCHANGED <<adapters, config_map, fusions, fusion_config_map, added_with>>

\* config.adapters.get_fusion(fusion_name)
RegGetFusion ==
    \E fusion_name \in FusionNameArgs :
        /\ reg_last' = RegCallRec("get_fusion", fusion_name, [none |-> TRUE],
                                  [RegRaise("none") EXCEPT
                                     !.ret = ModelAdaptersConfig_get_fusion(fusion_name)])
        /\ UNCHANGED <<adapters, config_map, fusions, fusion_config_map, added_with>>


-----------------------------------------------------------------------------
(* A config object (AdapterConfig, AdapterFusionConfig) *)

VARIABLES
    cfg_class,  \* the class of the config object
    cfg_dict,   \* its __dict__: attribute name -> value (values as written)
    cfg_last    \* history: the last assignment or deletion and how it ended

cfg_vars == <<cfg_class, cfg_dict, cfg_last>>

\* the objects constructed: PfeifferConfig(), PfeifferInvConfig(),
\* StaticAdapterFusionConfig(), DynamicAdapterFusionConfig(), by the fields
\* the model follows; the dataclass __init__ sets every field once
ConfigObjects ==
    {[class |-> "AdapterConfig",
      dict |-> [non_linearity |-> "relu", reduction_factor |-> "16",
                inv_adapter |-> i[1], inv_adapter_reduction_factor |-> i[2]]]
        : i \in {<<None, None>>, <<"nice", "2">>}}
    \cup {[class |-> "AdapterFusionConfig",
           dict |-> [value |-> v, regularization |-> v]] : v \in {"True", "False"}}

\* the attribute names assigned and deleted
AttrNames == {"reduction_factor", "inv_adapter", "value", "custom", "invertible_adapter"}

\* the values assigned under a name; for 'invertible_adapter' None and a
\* nested v1 config dict
AttrValues(name) ==
    IF name = "invertible_adapter"
    THEN {[none |-> TRUE], [block_type |-> "glow", reduction_factor |-> "4"]}
    ELSE IF name = "inv_adapter" THEN {"nice", "glow"}
    ELSE IF name = "value" THEN {"True", "False"}
    ELSE {"16", "8"}

\* the outcome of an assignment or deletion
AttrOutcome(e, d) == [exc |-> e, dict |-> d]

\* AdapterConfig.__setattr__(name, value)
AdapterConfig_setattr(name, value) ==
    IF name \in DOMAIN cfg_dict THEN AttrOutcome("FrozenInstanceError", cfg_dict)
    ELSE IF name = "invertible_adapter"
    THEN IF "none" \notin DOMAIN value
         THEN AttrOutcome("none",
                  SetItem(SetItem(cfg_dict, "inv_adapter", value.block_type),
                          "inv_adapter_reduction_factor", value.reduction_factor))
         ELSE AttrOutcome("none", cfg_dict)
    ELSE AttrOutcome("none", SetItem(cfg_dict, name, value))

\* AdapterConfig.__delattr__(name)
AdapterConfig_delattr(name) == AttrOutcome("FrozenInstanceError", cfg_dict)

\* AdapterFusionConfig.__setattr__(name, value)
AdapterFusionConfig_setattr(name, value) ==
    IF name \in DOMAIN cfg_dict THEN AttrOutcome("FrozenInstanceError", cfg_dict)
    ELSE AttrOutcome("none", SetItem(cfg_dict, name, value))

\* AdapterFusionConfig.__delattr__(name)
AdapterFusionConfig_delattr(name) == AttrOutcome("FrozenInstanceError", cfg_dict)

\* the record of an assignment or deletion, with the __dict__ before it
AttrCallRec(op, name, o) ==
    [op |-> op, name |-> name, exc |-> o.exc, dict |-> cfg_dict]

\* the constructed object
InitConfig ==
    /\ \E c \in ConfigObjects : cfg_class = c.class /\ cfg_dict = c.dict
    /\ cfg_last = [op |-> "init", name |-> None, exc |-> "none", dict |-> cfg_dict]

\* setattr(config, name, value)
SetAttr ==
    \E name \in AttrNames : \E value \in AttrValues(name) :
      LET o == IF cfg_class = "AdapterConfig" THEN AdapterConfig_setattr(name, value)
               ELSE AdapterFusionConfig_setattr(name, value) IN
        /\ cfg_dict' = o.dict
        /\ cfg_last' = AttrCallRec("setattr", name, o)
        /\ UNCHANGED cfg_class

\* delattr(config, name)
DelAttr ==
    \E name \in AttrNames :
      LET o == IF cfg_class = "AdapterConfig" THEN AdapterConfig_delattr(name)
               ELSE AdapterFusionConfig_delattr(name) IN
        /\ cfg_dict' = o.dict
        /\ cfg_last' = AttrCallRec("delattr", name, o)
        /\ UNCHANGED cfg_class


-----------------------------------------------------------------------------
(* The forward functions of the prediction heads *)

VARIABLES
    hf_in,      \* the arguments of a head's forward
    hf_out      \* the head called on them and what the call gave

hf_vars == <<hf_in, hf_out>>

\* the sequence length of the inputs (start_logits.size(1)) and their batch size
SeqLen == 2
BatchSize == 2

\* an element of a tuple a forward returns: a loss, logits, or an output of
\* the base model; only the loss of the question answering head has its
\* value followed, the other heads' losses are named by their loss function
Loss(fct, v) == [kind |-> "loss", fct |-> fct, v |-> v]
Logits(of, part) == [kind |-> "logits", of |-> of, part |-> part]
BaseOutput(v) == [kind |-> "base", v |-> v]

\* the outputs of the base model: the hidden states first, then the rest
BaseOutputs ==
    {<<BaseOutput("h1")>>, <<BaseOutput("h2"), BaseOutput("pooled"), BaseOutput("attentions")>>}

\* start_positions / end_positions: None, or one integer per row of the
\* batch, below 0 and above the sequence length included
PositionArgs ==
    {[none |-> TRUE]} \cup {[v |-> p] : p \in [1..BatchSize -> -1..(SeqLen + 1)]}

\* the arguments of a forward; the labels and the attention mask are given
\* or not, num_labels is the head's config["num_labels"]
HeadInputs ==
    [outputs : BaseOutputs,
     labels : {[none |-> TRUE], [v |-> "y"]},
     attention_mask : {[none |-> TRUE]},
     num_labels : {1, 2},
     start_positions : PositionArgs,
     end_positions : PositionArgs,
     return_dict : BOOLEAN]

\* -log_softmax(logits[b])[c] of the start and of the end logits, for row b
\* and position c of the sequence: the head's layers are not interpreted,
\* each row and position has a value of its own
Nll(part, b, c) ==
    IF part = "start" THEN Num(10 * b + c + 1) ELSE Rat(10 * b + c + 1, 3)

RECURSIVE SumNll(_, _, _)
SumNll(part, target, rows) ==
    IF rows = {} THEN Num(0)
    ELSE LET b == CHOOSE r \in rows : TRUE
         IN  FAdd(Nll(part, b, target[b]), SumNll(part, target, rows \ {b}))

\* CrossEntropyLoss(ignore_index)(logits, target) over SeqLen classes: the
\* mean of the rows whose target is not ignore_index (0/0 when there is
\* none); a target that is neither a class nor ignore_index is an IndexError
CrossEntropyLoss(part, target, ignore_index) ==
    IF \E b \in DOMAIN target : target[b] \notin (0..(SeqLen - 1)) \cup {ignore_index}
    THEN [exc |-> "IndexError", v |-> NonFinite]
    ELSE LET rows == {b \in DOMAIN target : target[b] # ignore_index}
         IN  [exc |-> "none",
              v |-> FDiv(SumNll(part, target, rows), Num(Cardinality(rows)))]

\* a clamp_ that leaves the tensor as it is
clamp_nothing(positions, lo, hi) == positions

\* positions.clamp_(lo, hi)
clamp_(positions, lo, hi) ==
    [b \in DOMAIN positions |->
       IF positions[b] < lo THEN lo ELSE IF positions[b] > hi THEN hi ELSE positions[b]]

\* what a forward gives: an exception or the value returned
ForwardOutcome(e, r) == [exc |-> e, ret |-> r]

\* the model output object returned with return_dict
ModelOutput(class, loss, logits) ==
    [kind |-> "ModelOutput", class |-> class, loss |-> loss, logits |-> logits]

\* a classification forward that puts the loss behind the logits
ClassificationHead_forward_loss_last(in) ==
    LET logits == Logits(in.outputs[1].v, "cls")
        loss == IF "none" \notin DOMAIN in.labels
                THEN IF in.num_labels = 1 THEN Loss("MSELoss", Num(0))
                     ELSE Loss("CrossEntropyLoss", Num(0))
                ELSE NoValue
    IN  IF in.return_dict
        THEN ForwardOutcome("none", ModelOutput("SequenceClassifierOutput", loss, <<logits>>))
        ELSE LET outputs == <<logits>> \o Tail(in.outputs)
             IN  ForwardOutcome("none",
                     IF "none" \notin DOMAIN in.labels THEN outputs \o <<loss>> ELSE outputs)

\* ClassificationHead.forward
ClassificationHead_forward(in) ==
    LET logits == Logits(in.outputs[1].v, "cls")
        loss == IF "none" \notin DOMAIN in.labels
                THEN IF in.num_labels = 1 THEN Loss("MSELoss", Num(0))
                     ELSE Loss("CrossEntropyLoss", Num(0))
                ELSE NoValue
    IN  IF in.return_dict
        THEN ForwardOutcome("none", ModelOutput("SequenceClassifierOutput", loss, <<logits>>))
        ELSE LET outputs == <<logits>> \o Tail(in.outputs)
             IN  ForwardOutcome("none",
                     IF "none" \notin DOMAIN in.labels THEN <<loss>> \o outputs ELSE outputs)

\* MultiLabelClassificationHead.forward
MultiLabelClassificationHead_forward(in) ==
    LET logits == Logits(in.outputs[1].v, "cls")
        loss == IF "none" \notin DOMAIN in.labels
                THEN Loss("BCEWithLogitsLoss", Num(0))
                ELSE NoValue
    IN  IF in.return_dict
        THEN ForwardOutcome("none", ModelOutput("SequenceClassifierOutput", loss, <<logits>>))
        ELSE LET outputs == <<logits>> \o Tail(in.outputs)
             IN  ForwardOutcome("none",
                     IF "none" \notin DOMAIN in.labels THEN <<loss>> \o outputs ELSE outputs)

\* MultipleChoiceHead.forward
MultipleChoiceHead_forward(in) ==
    LET logits == Logits(in.outputs[1].v, "choices")
        loss == IF "none" \notin DOMAIN in.labels
                THEN Loss("CrossEntropyLoss", Num(0))
                ELSE NoValue
    IN  IF in.return_dict
        THEN ForwardOutcome("none", ModelOutput("MultipleChoiceModelOutput", loss, <<logits>>))
        ELSE LET outputs == <<logits>> \o Tail(in.outputs)
             IN  ForwardOutcome("none",
                     IF "none" \notin DOMAIN in.labels THEN <<loss>> \o outputs ELSE outputs)

\* TaggingHead.forward
TaggingHead_forward(in) ==
    LET logits == Logits(in.outputs[1].v, "tokens")
        loss == IF "none" \notin DOMAIN in.labels
                THEN Loss("CrossEntropyLoss", Num(0))
                ELSE NoValue
    IN  IF in.return_dict
        THEN ForwardOutcome("none", ModelOutput("TokenClassifierOutput", loss, <<logits>>))
        ELSE LET outputs == <<logits>> \o Tail(in.outputs)
             IN  ForwardOutcome("none",
                     IF "none" \notin DOMAIN in.labels THEN <<loss>> \o outputs ELSE outputs)

\* QuestionAnsweringHead.forward
QuestionAnsweringHead_forward(in) ==
    LET start_logits == Logits(in.outputs[1].v, "start")
        end_logits == Logits(in.outputs[1].v, "end")
        both == "none" \notin DOMAIN in.start_positions
                /\ "none" \notin DOMAIN in.end_positions
        ignored_index == SeqLen
        start_loss == CrossEntropyLoss("start",
                          clamp_(in.start_positions.v, 0, ignored_index), ignored_index)
        end_loss == CrossEntropyLoss("end",
                        clamp_(in.end_positions.v, 0, ignored_index), ignored_index)
        total_loss == IF both
                      THEN Loss("CrossEntropyLoss",
                                FDiv(FAdd(start_loss.v, end_loss.v), Num(2)))
                      ELSE NoValue
    IN  IF both /\ start_loss.exc # "none" THEN ForwardOutcome(start_loss.exc, NoValue)
        ELSE IF both /\ end_loss.exc # "none" THEN ForwardOutcome(end_loss.exc, NoValue)
        ELSE IF in.return_dict
        THEN ForwardOutcome("none", ModelOutput("QuestionAnsweringModelOutput", total_loss,
                                                <<start_logits, end_logits>>))
        ELSE LET outputs == <<start_logits, end_logits>> \o Tail(in.outputs)
             IN  ForwardOutcome("none", IF both THEN <<total_loss>> \o outputs ELSE outputs)

\* the arguments are drawn; no head has been called
InitHeadForward ==
    /\ hf_in \in HeadInputs
    /\ hf_out = [head |-> None, exc |-> "none", ret |-> NoValue]

\* the other specifications hold one set of arguments
InitOneHeadInput ==
    /\ InitHeadForward
    /\ hf_in = [outputs |-> <<BaseOutput("h1")>>, labels |-> [none |-> TRUE],
                attention_mask |-> [none |-> TRUE], num_labels |-> 2,
                start_positions |-> [none |-> TRUE], end_positions |-> [none |-> TRUE],
                return_dict |-> FALSE]

CallHead(head, o) ==
    /\ hf_out' = [head |-> head, exc |-> o.exc, ret |-> o.ret]
    /\ UNCHANGED hf_in

ClassificationForward == CallHead("classification", ClassificationHead_forward(hf_in))

MultiLabelForward ==
    CallHead("multilabel_classification", MultiLabelClassificationHead_forward(hf_in))

MultipleChoiceForward == CallHead("multiple_choice", MultipleChoiceHead_forward(hf_in))

TaggingForward == CallHead("tagging", TaggingHead_forward(hf_in))

QuestionAnsweringForward ==
    CallHead("question_answering", QuestionAnsweringHead_forward(hf_in))


-----------------------------------------------------------------------------
(* Specifications *)

vars == <<lora_vars, head_vars, reg_vars, cfg_vars, hf_vars>>

\* the one config object the other specifications hold: PfeifferConfig()
InitOneConfig == InitConfig /\ cfg_class = "AdapterConfig" /\ cfg_dict.inv_adapter = None

\* an injection point, in a model whose heads are left alone
Init == InitLayer /\ InitHeads /\ InitRegistry /\ InitOneConfig /\ InitOneHeadInput

Next ==
    \/ AddAdapter /\ UNCHANGED <<head_vars, reg_vars, cfg_vars, hf_vars>>
    \/ DeleteAdapter /\ UNCHANGED <<head_vars, reg_vars, cfg_vars, hf_vars>>
    \/ ResetLora /\ UNCHANGED <<head_vars, reg_vars, cfg_vars, hf_vars>>
    \/ MergeLora /\ UNCHANGED <<head_vars, reg_vars, cfg_vars, hf_vars>>
    \/ Forward /\ UNCHANGED <<head_vars, reg_vars, cfg_vars, hf_vars>>

Spec == Init /\ [][Next]_vars

\* a model with flexible heads, one injection point of it left alone
InitModel ==
    /\ InitLayer
    /\ kind = "Linear"
    /\ ~fan_in_fan_out
    /\ attn_key = None
    /\ config_adapters["a"] = NoConfig
    /\ InitHeads
    /\ InitRegistry
    /\ InitOneConfig
    /\ InitOneHeadInput

NextHeads ==
    \/ AddPredictionHead /\ UNCHANGED <<reg_vars, cfg_vars, hf_vars>>
    \/ SetActiveHead /\ UNCHANGED <<reg_vars, cfg_vars, hf_vars>>
    \/ SetActiveAdapters /\ UNCHANGED <<reg_vars, cfg_vars, hf_vars>>
    \/ ForwardHead /\ UNCHANGED <<reg_vars, cfg_vars, hf_vars>>
    \/ T5Forward /\ UNCHANGED <<reg_vars, cfg_vars, hf_vars>>
    \/ FromPretrained /\ UNCHANGED <<reg_vars, cfg_vars, hf_vars>>

SpecHeads == InitModel /\ [][NextHeads]_vars

\* the same model driven through its methods only, active_head never
\* assigned from outside
NextHeadCalls ==
    \/ AddPredictionHead /\ UNCHANGED <<reg_vars, cfg_vars, hf_vars>>
    \/ SetActiveAdapters /\ UNCHANGED <<reg_vars, cfg_vars, hf_vars>>
    \/ ForwardHead /\ UNCHANGED <<reg_vars, cfg_vars, hf_vars>>

SpecHeadCalls == InitModel /\ [][NextHeadCalls]_vars

\* the registry of a model, its heads and one injection point left alone
NextRegistry ==
    \/ RegAdd /\ UNCHANGED <<lora_vars, head_vars, cfg_vars, hf_vars>>
    \/ RegGet /\ UNCHANGED <<lora_vars, head_vars, cfg_vars, hf_vars>>
    \/ RegAddFusion /\ UNCHANGED <<lora_vars, head_vars, cfg_vars, hf_vars>>
    \/ RegGetFusion /\ UNCHANGED <<lora_vars, head_vars, cfg_vars, hf_vars>>
    \/ RegCommonConfigValue /\ UNCHANGED <<lora_vars, head_vars, cfg_vars, hf_vars>>

SpecRegistry == InitModel /\ [][NextRegistry]_vars

\* a config object of either class, everything else left alone
InitConfigs ==
    /\ InitLayer
    /\ kind = "Linear"
    /\ ~fan_in_fan_out
    /\ attn_key = None
    /\ config_adapters["a"] = NoConfig
    /\ InitHeads
    /\ InitRegistry
    /\ InitConfig
    /\ InitOneHeadInput

NextConfig ==
    \/ SetAttr /\ UNCHANGED <<lora_vars, head_vars, reg_vars, hf_vars>>
    \/ DelAttr /\ UNCHANGED <<lora_vars, head_vars, reg_vars, hf_vars>>

SpecConfig == InitConfigs /\ [][NextConfig]_vars

\* the heads' forward functions on drawn arguments, everything else left alone
InitHeadForwards ==
    /\ InitLayer
    /\ kind = "Linear"
    /\ ~fan_in_fan_out
    /\ attn_key = None
    /\ config_adapters["a"] = NoConfig
    /\ config_adapters["b"] = CHOOSE c \in SecondConfigs : TRUE
    /\ InitHeads
    /\ InitRegistry
    /\ InitOneConfig
    /\ InitHeadForward

NextHeadForward ==
    \/ ClassificationForward /\ UNCHANGED <<lora_vars, head_vars, reg_vars, cfg_vars>>
    \/ MultiLabelForward /\ UNCHANGED <<lora_vars, head_vars, reg_vars, cfg_vars>>
    \/ MultipleChoiceForward /\ UNCHANGED <<lora_vars, head_vars, reg_vars, cfg_vars>>
    \/ TaggingForward /\ UNCHANGED <<lora_vars, head_vars, reg_vars, cfg_vars>>
    \/ QuestionAnsweringForward /\ UNCHANGED <<lora_vars, head_vars, reg_vars, cfg_vars>>

SpecHeadForward == InitHeadForwards /\ [][NextHeadForward]_vars


-----------------------------------------------------------------------------
(* Claims about the injection point *)

\* C1: merge_lora(name) of an adapter with r > 0, followed immediately by
\* reset_lora(), leaves the wrapped weight equal to its value before the merge
\* and leaves no adapter marked merged.
C1_MergeResetRoundTrip ==
    (/\ last.op = "reset_lora"
     /\ last.after_merge
     /\ Present(last.m)
     /\ loras[last.m].r > 0)
    => (/\ last.exc = "none"
        /\ weight = premerge
        /\ Falsy(merged))

\* C2: delete_adapter(name) called while name is the merged adapter leaves
\* the wrapped weight equal to its value before the merge, the adapter absent
\* and no adapter marked merged.
C2_DeleteUnmergesFirst ==
    (/\ last.op = "delete_adapter"
     /\ last.had
     /\ last.m = last.name)
    => (/\ weight = premerge
        /\ ~Present(last.name)
        /\ Falsy(merged))


Folded(w, lora) ==
    IF lora.r > 0 /\ (kind = "Linear" \/ AnyTrue(lora.enable_lora))
    THEN com(lora, w, IF kind = "Linear" THEN Linear_delta_w(lora)
                      ELSE zero_pad(MergedLinear_delta_w(lora), lora))
    ELSE w

\* C4: after add_adapter (of names not yet present), merge_lora, reset_lora
\* and forward calls only, the wrapped weight is the original weight when no
\* adapter is marked merged, and the original weight with the delta of the
\* one adapter the marker names folded in otherwise.
C4_SingleMerge ==
    pure => weight = IF Falsy(merged) THEN base ELSE Folded(base, loras[merged])


\* C5: forward with an active composition that holds more than one adapter of
\* the point raises an error, merged or not, and forward with an active
\* composition of exactly one present adapter never raises.
C5_Arity ==
    last.op = "forward"
    => /\ Len(get_active_setup(last.setup)) > 1 => last.exc # "none"
       /\ (Len(last.setup) = 1 /\ Len(get_active_setup(last.setup)) = 1)
          => last.exc = "none"

\* C6: for an adapter with r > 0 and dropout 0, forward(x) after
\* merge_lora(name) returns what forward(x) returned before the merge with
\* name as the single active adapter, for every x.
C6_MergePreservesForward ==
    (/\ last.op = "merge_lora"
     /\ last.exc = "none"
     /\ last.had
     /\ Falsy(last.m)
     /\ merged = last.name
     /\ loras[merged].r > 0
     /\ loras[merged].dropout = Num(0))
    => \A x \in Inputs : forward(x, <<merged>>) = last.fwd[x]

C8_AddReportsCreation ==
    last.op = "add_adapter"
    => /\ ~last.had => (last.ret = "True" <=> Present(last.name))
       /\ (\/ match(last.name, layer_idx) = NoConfig
           \/ ~check_lora_location(match(last.name, layer_idx)))
          => (last.exc = "none" /\ last.ret = "False" /\ last.kept)

\* C9: add_adapter and delete_adapter leave the wrapped weight, the bias and
\* the merged marker as they were; after add_adapter(a) of an absent a,
\* forward calls only and delete_adapter(a), a is absent and forward returns,
\* for every x and every active composition, what it returned before the add.
C9_AddDeleteLeaveBase ==
    /\ last.op \in {"add_adapter", "delete_adapter"}
       => (weight = last.w /\ bias = last.b /\ merged = last.m)
    /\ (last.op = "delete_adapter" /\ last.snap # NoAdd)
       => (/\ ~Present(last.name)
           /\ ForwardTable = last.snap.fwd
           /\ (merged = False /\ \A n \in Names : ~Present(n))
              => \A i \in Inputs \X Setups :
                   forward(i[1], i[2]) = {Returned(FLinear(i[1], T(base), bias))})

\* C9 happens: an adapter with r > 0 was added, used as the active adapter of
\* a forward call and deleted, with nothing merged
C9_Witness ==
    /\ last.op = "delete_adapter"
    /\ last.had
    /\ last.snap # NoAdd
    /\ last.snap.used
    /\ merged = False
    /\ \A n \in Names : ~Present(n)


\* the name forward_head resolves: head_name if added_with, else the active head
C10_Resolved == IF Truthy(head_last.name) THEN head_last.name ELSE head_last.active

\* C10: forward_head(outputs, head_name) uses head_name if added_with and
\* otherwise the active head; when neither is a name it returns the added_with
\* outputs unchanged without error; when the resolved name is not a registered
\* head it fails; otherwise it returns the result of the head registered
\* under the resolved name.
C10_HeadFallback ==
    head_last.op = "forward_head"
    => /\ ~Truthy(C10_Resolved)
          => (head_last.exc = "none" /\ head_last.ret = head_last.arg)
       /\ (Truthy(C10_Resolved) /\ C10_Resolved \notin DOMAIN heads)
          => (head_last.exc = "ValueError" /\ head_last.ret = NoValue)
       /\ (Truthy(C10_Resolved) /\ C10_Resolved \in DOMAIN heads)
          => (/\ head_last.exc = "none"
              /\ head_last.ret = HeadCall(heads[C10_Resolved], head_last.arg))
       /\ head_last.heads = heads /\ head_last.active = active_head

\* C10 happens: forward_head without a head name fell back to the active
\* head, one of two registered heads, and returned that head's result
C10_Witness ==
    /\ head_last.op = "forward_head"
    /\ ~Truthy(head_last.name)
    /\ DOMAIN heads = HeadNames
    /\ heads["a"] # heads["h"]
    /\ active_head \in HeadNames
    /\ head_last.exc = "none"
    /\ head_last.ret = HeadCall(heads[active_head], head_last.arg)


-----------------------------------------------------------------------------
(* Claims about the prediction heads *)

\* C11: add_prediction_head(head) with a name already in the head table and
\* overwrite_ok false fails and leaves the head table, config.prediction_heads
\* and the active head unchanged; with overwrite_ok true it replaces the
\* registered head and its config entry under that name by the given head's,
\* and leaves the heads under other names alone.
C11_DuplicateHeadRejected ==
    (/\ head_last.op = "add_prediction_head"
     /\ head_last.name \in DOMAIN head_last.heads)
    => /\ ~head_last.arg.overwrite_ok
          => (/\ head_last.exc = "ValueError"
              /\ heads = head_last.heads
              /\ prediction_heads = head_last.ph
              /\ active_head = head_last.active)
       /\ head_last.arg.overwrite_ok
          => (/\ head_last.exc # "ValueError"
              /\ DOMAIN heads = DOMAIN head_last.heads
              /\ DOMAIN prediction_heads = DOMAIN head_last.ph
              /\ heads[head_last.name].name = head_last.name
              /\ \A k \in DOMAIN head_last.arg.head.config \ {"label2id"} :
                   /\ k \in DOMAIN heads[head_last.name].config
                   /\ heads[head_last.name].config[k] = head_last.arg.head.config[k]
              /\ DOMAIN heads[head_last.name].config \ {"label2id"}
                    = DOMAIN head_last.arg.head.config \ {"label2id"}
              /\ prediction_heads[head_last.name] = heads[head_last.name].config
              /\ \A n \in DOMAIN heads \ {head_last.name} :
                   /\ heads[n] = head_last.heads[n]
                   /\ prediction_heads[n] = head_last.ph[n])

\* C11 happens: a head of another type was refused under a registered name
\* while a head under a second name is registered
C11_Witness ==
    /\ head_last.op = "add_prediction_head"
    /\ head_last.name \in DOMAIN head_last.heads
    /\ ~head_last.arg.overwrite_ok
    /\ head_last.exc = "ValueError"
    /\ DOMAIN heads = HeadNames
    /\ heads[head_last.name].config.head_type # head_last.arg.head.config.head_type
    /\ active_head # head_last.name

\* C12: after every add_prediction_head(head) that returns, for every head
\* type, head.name is the active head and the registered head's
\* config["label2id"] is a map: the supplied one when one was given, else
\* LABEL_i -> i for i in 0..n-1 with n = num_labels (num_choices for a
\* multiple choice head).
C12_NewHeadActiveWithLabels ==
    (head_last.op = "add_prediction_head" /\ head_last.exc = "none")
    => LET given == head_last.arg.head.config
           c == heads[head_last.name].config
       IN  /\ active_head = head_last.name
           /\ "label2id" \in DOMAIN c
           /\ c.label2id # NoneMap
           /\ ("label2id" \in DOMAIN given /\ given.label2id # NoneMap)
              => c.label2id = given.label2id
           /\ ("label2id" \notin DOMAIN given \/ given.label2id = NoneMap)
              => c.label2id =
                   [l \in {"LABEL_0", "LABEL_1", "LABEL_2"} \cap DOMAIN c.label2id |->
                      CASE l = "LABEL_0" -> 0 [] l = "LABEL_1" -> 1 [] l = "LABEL_2" -> 2]
           /\ ("label2id" \notin DOMAIN given \/ given.label2id = NoneMap)
              => Cardinality(DOMAIN c.label2id) =
                   IF "num_choices" \in DOMAIN given THEN given.num_choices
                   ELSE given.num_labels

\* C12 happens: a custom head that brought a label count and no label map was
\* added and is active, with a built-in head under the other name
C12_Witness ==
    /\ head_last.op = "add_prediction_head"
    /\ head_last.exc = "none"
    /\ head_last.arg.head.config = [head_type |-> "custom", num_labels |-> 3]
    /\ active_head = head_last.name
    /\ DOMAIN heads = HeadNames
    /\ \E n \in HeadNames : heads[n].config.head_type = "multiple_choice"


\* the last adapter name of the argument of the last call, "" when it has none
C13_Last ==
    LET arg == head_last.arg
    IN  IF "name" \in DOMAIN arg THEN arg.name
        ELSE IF "list" \in DOMAIN arg /\ arg.list # <<>> THEN arg.list[Len(arg.list)]
        ELSE ""

\* C13: after set_active_adapters(setup) with a non-empty setup, if a head
\* named setup.last() is registered that head is the active head; if no such
\* head is registered the call raises nothing and the active head is the one
\* from before the call; with an empty or None setup the active head is
\* unchanged too.  The head table is never changed.
C13_HeadAutoActivation ==
    head_last.op = "set_active_adapters"
    => /\ (C13_Last # "" /\ C13_Last \in DOMAIN heads) => active_head = C13_Last
       /\ (C13_Last # "" /\ C13_Last \notin DOMAIN heads)
          => (head_last.exc = "none" /\ active_head = head_last.active)
       /\ C13_Last = "" => (head_last.exc = "none" /\ active_head = head_last.active)
       /\ heads = head_last.heads

\* C13 happens: set_active_adapters with a list of two adapters made the head
\* named like the last one active, in place of the head named like the first
C13_Witness ==
    /\ head_last.op = "set_active_adapters"
    /\ head_last.arg = [list |-> <<"a", "h">>]
    /\ DOMAIN heads = HeadNames
    /\ head_last.active = "a"
    /\ active_head = "h"
    /\ head_last.exc = "none"

-----------------------------------------------------------------------------
(* Claims about the registry of adapters and fusions *)

\* C14: whenever two adapter names were added with anonymous (mapping)
\* configs, equal configs share one config name and so one config_map
\* entry, and configs that differ in a field have different config names,
\* each entry still holding the config it was added with.
C14_ConfigHashStability ==
    LET anon == {n \in DOMAIN added_with : added_with[n].anon}
    IN  \A m \in anon, n \in anon :
          /\ adapters[m] \in DOMAIN config_map
          /\ added_with[m].config = added_with[n].config => adapters[m] = adapters[n]
          /\ added_with[m].config # added_with[n].config
             => /\ adapters[m] # adapters[n]
                /\ config_map[adapters[m]] = added_with[m].config
                /\ config_map[adapters[n]] = added_with[n].config

\* two names added with the same mapping and a third with one that differs
\* from it in a single field
C14_Witness ==
    /\ DOMAIN added_with = {"a", "b", "c"}
    /\ \A n \in DOMAIN added_with : added_with[n].anon
    /\ \A n \in DOMAIN added_with : "non_linearity" \in DOMAIN added_with[n].config
    /\ added_with["a"].config = added_with["b"].config
    /\ added_with["a"].config.non_linearity = added_with["c"].config.non_linearity
    /\ added_with["a"].config.reduction_factor # added_with["c"].config.reduction_factor
    /\ reg_last.op = "add"

\* C15: an add or add_fusion whose config is a string that is a key of
\* neither the built-in preset map nor the instance's own config map fails
\* and leaves adapters, config_map, fusions and fusion_config_map as they
\* were; with a string that is a key of either map (and a name not yet
\* registered) it returns and the name maps to that string.
C15_UnknownConfigRejected ==
    (reg_last.op \in {"add", "add_fusion"} /\ "str" \in DOMAIN reg_last.config)
    => /\ ~reg_last.known => (reg_last.exc = "ValueError" /\ reg_last.kept)
       /\ (reg_last.known /\ ~reg_last.had)
          => /\ reg_last.exc = "none"
             /\ IF reg_last.op = "add"
                THEN /\ reg_last.name \in DOMAIN adapters
                     /\ adapters[reg_last.name] = reg_last.config.str
                ELSE /\ FusionKey(reg_last.name) \in DOMAIN fusions
                     /\ fusions[FusionKey(reg_last.name)] = reg_last.config.str

\* an adapter was added with a string that is a key of the instance's own
\* config map only
C15_Witness ==
    /\ reg_last.op = "add"
    /\ "str" \in DOMAIN reg_last.config
    /\ reg_last.known
    /\ ~reg_last.had
    /\ reg_last.config.str \notin DOMAIN ADAPTER_CONFIG_MAP
    /\ "nope" \notin DOMAIN config_map

\* C16: an add with a name that is already registered fails for every
\* config argument and leaves the registry as it was, and so does an
\* add_fusion with a fusion name that is already registered.
C16_DuplicateNameRejected ==
    (reg_last.op \in {"add", "add_fusion"} /\ reg_last.had)
    => (reg_last.exc = "ValueError" /\ reg_last.kept)

\* an adapter name was added again with the very mapping it was registered with
C16_Witness ==
    /\ reg_last.op = "add"
    /\ reg_last.had
    /\ "map" \in DOMAIN reg_last.config
    /\ reg_last.name \in DOMAIN added_with
    /\ added_with[reg_last.name].anon
    /\ added_with[reg_last.name].config = reg_last.config.map
    /\ reg_last.exc = "ValueError"

\* C17: a fusion added for a list of adapter names is stored under the
\* sorted, comma-joined names; get_fusion of a list returns a config when a
\* permutation of the list is registered; add_fusion of a list fails when a
\* permutation of it was registered.
C17_FusionKeysOrderIndependent ==
    LET rank == [n \in AdapterNames |-> IF n = "a" THEN 1 ELSE IF n = "b" THEN 2 ELSE 3]
        Perms(l) == {[i \in 1..Len(l) |-> l[f[i]]] :
                        f \in {g \in [1..Len(l) -> 1..Len(l)] :
                                 \A i, j \in 1..Len(l) : i # j => g[i] # g[j]}}
        Sorted(l) == CHOOSE p \in Perms(l) :
                        \A i \in 1..(Len(p) - 1) : rank[p[i]] <= rank[p[i + 1]]
        l == reg_last.name.list
    IN  (reg_last.op \in {"add_fusion", "get_fusion"} /\ "list" \in DOMAIN reg_last.name)
        => /\ (reg_last.op = "add_fusion" /\ reg_last.exc = "none")
              => Join(Sorted(l)) \in DOMAIN fusions \ DOMAIN reg_last.fusions
           /\ (reg_last.op = "get_fusion"
                 /\ \E p \in Perms(l) : Join(p) \in DOMAIN fusions)
              => reg_last.ret # NoValue
           /\ (reg_last.op = "add_fusion"
                 /\ \E p \in Perms(l) : Join(p) \in DOMAIN reg_last.fusions)
              => reg_last.exc = "ValueError"

-----------------------------------------------------------------------------
(* Claims about config objects *)

\* C18: after every assignment or deletion on an AdapterConfig or an
\* AdapterFusionConfig, under any attribute name, every attribute that was
\* set before it still has the value it had; and an assignment or deletion
\* of an attribute that was set fails with FrozenInstanceError and leaves
\* the object as it was.
C18_FieldsWriteOnce ==
    cfg_last.op \in {"setattr", "delattr"}
    => /\ \A f \in DOMAIN cfg_last.dict :
             f \in DOMAIN cfg_dict /\ cfg_dict[f] = cfg_last.dict[f]
       /\ cfg_last.name \in DOMAIN cfg_last.dict
          => (cfg_last.exc = "FrozenInstanceError" /\ cfg_dict = cfg_last.dict)

-----------------------------------------------------------------------------
(* Claims about the heads' forward functions *)

\* C19: whatever integers the start and end positions are (below 0 and
\* above the sequence length L included), QuestionAnsweringHead.forward
\* given both raises nothing, and its loss is the mean of a start loss and
\* an end loss, each the mean, over the rows whose label min(max(p, 0), L)
\* is not L, of the row's negative log-likelihood at that label (rows with
\* label L add nothing; with no row left the mean is 0/0).
C19_QAClamping ==
    LET L == SeqLen
        label(p) == IF p < 0 THEN 0 ELSE IF p > L THEN L ELSE p
        counted(pos) == {b \in 1..BatchSize : label(pos[b]) # L}
        part_loss(part, pos) ==
            FDiv(SumNll(part, [b \in 1..BatchSize |-> label(pos[b])], counted(pos)),
                 Num(Cardinality(counted(pos))))
    IN  (/\ hf_out.head = "question_answering"
         /\ "none" \notin DOMAIN hf_in.start_positions
         /\ "none" \notin DOMAIN hf_in.end_positions)
        => /\ hf_out.exc = "none"
           /\ LET loss == IF hf_in.return_dict THEN hf_out.ret.loss ELSE hf_out.ret[1]
              IN  /\ loss.kind = "loss"
                  /\ loss.v = FDiv(FAdd(part_loss("start", hf_in.start_positions.v),
                                         part_loss("end", hf_in.end_positions.v)),
                                    Num(2))

\* a call with a start position above the sequence length and one below 0,
\* an end position equal to the sequence length, and a finite loss
C19_Witness ==
    /\ hf_out.head = "question_answering"
    /\ "none" \notin DOMAIN hf_in.start_positions
    /\ "none" \notin DOMAIN hf_in.end_positions
    /\ hf_in.start_positions.v = <<SeqLen + 1, -1>>
    /\ hf_in.end_positions.v = <<SeqLen, 1>>
    /\ ~hf_in.return_dict
    /\ hf_out.exc = "none"
    /\ IsFinite(hf_out.ret[1].v)

\* C20: with return_dict false every head's forward returns a tuple whose
\* first element is the loss exactly when labels were given (question
\* answering: when both start and end positions were given), then the
\* logits (question answering: start logits, then end logits), then the
\* base model's outputs from index 1 on.
C20_OutputLayout ==
    (hf_out.head # None /\ ~hf_in.return_dict)
    => LET qa == hf_out.head = "question_answering"
           given == IF qa THEN /\ "none" \notin DOMAIN hf_in.start_positions
                               /\ "none" \notin DOMAIN hf_in.end_positions
                    ELSE "none" \notin DOMAIN hf_in.labels
           k == IF given THEN 1 ELSE 0
           n == IF qa THEN 2 ELSE 1
           ret == hf_out.ret
       IN  /\ hf_out.exc = "none"
           /\ Len(ret) = k + n + Len(hf_in.outputs) - 1
           /\ (ret[1].kind = "loss") <=> given
           /\ \A i \in 1..Len(ret) : (i > 1) => ret[i].kind # "loss"
           /\ \A i \in (k + 1)..(k + n) :
                  ret[i].kind = "logits" /\ ret[i].of = hf_in.outputs[1].v
           /\ qa => (ret[k + 1].part = "start" /\ ret[k + 2].part = "end")
           /\ SubSeq(ret, k + n + 1, Len(ret)) = Tail(hf_in.outputs)

\* a classification head called with labels and base outputs beyond the
\* hidden states: the logits are at index 1 (the second element)
C20_Witness ==
    /\ hf_out.head = "classification"
    /\ ~hf_in.return_dict
    /\ "none" \notin DOMAIN hf_in.labels
    /\ Len(hf_in.outputs) > 1
    /\ hf_out.exc = "none"
    /\ hf_out.ret[2].kind = "logits"

-----------------------------------------------------------------------------
(* Further claims about the injection point *)

\* C25: in every state where an adapter is marked merged, forward(x)
\* returns, for every active composition, linear(x) with the wrapped weight
\* as it is and the bias: nothing is added to it for the merged adapter or
\* for any other.
C25_NoDoubleApplication ==
    (last.op = "forward" /\ ~Falsy(merged))
    => \E o \in {Returned(base_linear(last.x))} :
          last.exc = o.exc /\ last.out = o.out

\* a forward call with the merged adapter as the one active adapter
C25_Witness ==
    /\ last.op = "forward"
    /\ ~Falsy(merged)
    /\ last.setup = <<merged>>
    /\ Present(merged)
    /\ loras[merged].r > 0
    /\ last.exc = "none"

\* C29: merge_lora(name) with a name that has no module at the injection
\* point raises nothing and leaves the wrapped weight and the merged marker
\* as they were, whether or not another adapter is merged.
C29_MergeAbsentIsNoOp ==
    (last.op = "merge_lora" /\ ~last.had)
    => (last.exc = "none" /\ weight = last.w /\ merged = last.m)

\* merge_lora of an absent name while another adapter is merged
C29_Witness ==
    /\ last.op = "merge_lora"
    /\ ~last.had
    /\ ~Falsy(last.m)
    /\ last.m # last.name

\* C30: merge_lora(name) when name is the merged adapter, and reset_lora()
\* when no adapter is merged, raise nothing and leave the wrapped weight
\* and the merged marker as they were.
C30_MergeResetIdempotent ==
    /\ (last.op = "merge_lora" /\ last.m = last.name)
       => (last.exc = "none" /\ weight = last.w /\ merged = last.m)
    /\ (last.op = "reset_lora" /\ Falsy(last.m))
       => (last.exc = "none" /\ weight = last.w /\ merged = last.m)

\* the merged adapter, present with r > 0, merged a second time
C30_Witness ==
    /\ last.op = "merge_lora"
    /\ last.m = last.name
    /\ last.had
    /\ loras[last.name].r > 0

\* C23: for every rank (0 included), an add_adapter whose matching config
\* sets no_decomposition with r > 1, or has an init_weights that is neither
\* "lora" nor "bert", raises an error and leaves the injection point
\* without a module for that name.
C23_InvalidConfigFailsAtAdd ==
    LET config == config_adapters[last.name]
    IN  (/\ last.op = "add_adapter"
         /\ config # NoConfig
         /\ check_lora_location(config)
         /\ \/ config.no_decomposition /\ config.r > 1
            \/ config.init_weights \notin {"lora", "bert"})
        => (last.exc # "none" /\ ~Present(last.name))

\* C22: in a MergedLinear, the index mask set at add_adapter marks exactly
\* the output positions of the thirds (q, k, v) named in the adapter's
\* attn_matrices; merge_lora and reset_lora of that adapter leave the
\* wrapped weight at unmarked output positions as it was, and forward with
\* that adapter as the one active adapter returns at unmarked positions
\* what linear(x) on the wrapped weight returns, in both composition modes.
C22_MaskIsFrame ==
    LET third(p) == <<"q", "k", "v">>[((p - 1) \div (out_features \div 3)) + 1]
        marked(lora, p) == lora.lora_ind # NoAttr /\ lora.lora_ind[p]
        unmarked(lora) == {p \in 1..out_features : ~marked(lora, p)}
        same_weight(lora) ==
            /\ ~IsErr(weight)
            /\ \A p \in unmarked(lora) : \A i \in 1..Rows(weight) :
                  weight[i][p] = last.w[i][p]
    IN  kind = "MergedLinear"
        => /\ (last.op = "add_adapter" /\ Present(last.name) /\ ~last.had)
              => \A p \in 1..out_features :
                    marked(loras[last.name], p)
                    <=> third(p) \in config_adapters[last.name].attn_matrices
           /\ (last.op = "merge_lora" /\ last.had /\ last.exc = "none")
              => same_weight(loras[last.name])
           /\ (last.op = "reset_lora" /\ ~Falsy(last.m) /\ Present(last.m)
                 /\ last.exc = "none")
              => same_weight(loras[last.m])
           /\ (last.op = "forward" /\ Len(last.setup) = 1 /\ Present(last.setup[1])
                 /\ last.exc = "none")
              => \A p \in unmarked(loras[last.setup[1]]) :
                    last.out[1][p] = base_linear(last.x)[1][p]

-----------------------------------------------------------------------------
(* Further claims about the prediction heads *)

\* C26: after any sequence of add_prediction_head, set_active_adapters and
\* forward_head calls on a freshly constructed model, active_head is None
\* or the name of a head in the head table, and a forward_head call without
\* a head name never ends in the unknown-head error.
C26_ActiveHeadResolvable ==
    /\ active_head = None \/ active_head \in DOMAIN heads
    /\ (head_last.op = "forward_head" /\ ~Truthy(head_last.name))
       => head_last.exc # "ValueError"

\* forward_head without a head name after a set_active_adapters that named
\* no registered head, with a head active
C26_Witness ==
    /\ head_last.op = "forward_head"
    /\ ~Truthy(head_last.name)
    /\ active_head \in DOMAIN heads
    /\ active_adapters # NoBlock
    /\ BlockTruthy(active_adapters)
    /\ BlockLast(active_adapters) \notin DOMAIN heads

\* C28: when every head in the head table carries num_labels or
\* num_choices and active_head names one of them, the model config's
\* label2id is that head's label2id and its id2label is the inverse of it.
C28_LabelsFollowActiveHead ==
    (/\ \A h \in DOMAIN heads :
            {"num_labels", "num_choices"} \cap DOMAIN heads[h].config # {}
     /\ active_head \in DOMAIN heads)
    => /\ config_label2id = heads[active_head].config.label2id
       /\ config_id2label = Inverse(heads[active_head].config.label2id)
       /\ config_id2label = get_labels_dict(heads, active_head).ret

\* two registered heads with different label maps, the first added made
\* active again by set_active_adapters
C28_Witness ==
    /\ head_last.op = "set_active_adapters"
    /\ DOMAIN heads = {"a", "h"}
    /\ \A h \in DOMAIN heads :
          {"num_labels", "num_choices"} \cap DOMAIN heads[h].config # {}
    /\ heads["a"].config.label2id # heads["h"].config.label2id
    /\ active_head \in DOMAIN heads
    /\ head_last.active # active_head

-----------------------------------------------------------------------------
(* Further claims about the registry *)

\* C27: after any sequence of add and add_fusion calls on a registry that
\* started empty, every name that was added is in adapters with the config
\* name it was given and get(name) returns the config supplied at its add
\* (the "pfeiffer" preset when none was supplied); get of a name never added
\* returns None; every registered fusion name resolves through get_fusion
\* to a config.
C27_RegisteredAlwaysResolve ==
    /\ \A n \in DOMAIN added_with :
          /\ n \in DOMAIN adapters
          /\ adapters[n] = added_with[n].name
          /\ ModelAdaptersConfig_get(n) # NoValue
          /\ ModelAdaptersConfig_get(n) = added_with[n].config
    /\ \A n \in AdapterNames \ DOMAIN added_with :
          n \notin DOMAIN adapters /\ ModelAdaptersConfig_get(n) = NoValue
    /\ \A f \in DOMAIN fusions : ModelAdaptersConfig_get_fusion([str |-> f]) # NoValue

\* one adapter added without a config, one with an anonymous mapping, one
\* name never added, and fusions registered with a preset and with a mapping
C27_Witness ==
    /\ DOMAIN added_with = {"a", "b"}
    /\ added_with["a"].name = DEFAULT_ADAPTER_CONFIG
    /\ added_with["b"].anon
    /\ \E f \in DOMAIN fusions : fusions[f] \in DOMAIN ADAPTERFUSION_CONFIG_MAP
    /\ \E f \in DOMAIN fusions : fusions[f] \in DOMAIN fusion_config_map
    /\ reg_last.op = "add"
    /\ reg_last.exc = "ValueError"

\* C24: common_config_value(adapter_names, attribute) returns the shared
\* value when every listed name is a registered adapter, whatever its config,
\* an empty mapping included, and all their configs give that value for the
\* attribute (an absent attribute counts as None); it fails when a listed
\* name is not registered and when two listed adapters give different
\* values; it never modifies the registry.
C24_CommonConfigValue ==
    reg_last.op = "common_config_value"
    => LET adapter_names == reg_last.name.list
           attribute == reg_last.config.str
           listed == {adapter_names[i] : i \in 1..Len(adapter_names)}
           value(n) == config_get(added_with[n].config, attribute)
       IN  /\ reg_last.kept
           /\ (\E n \in listed : n \notin DOMAIN added_with) => reg_last.exc # "none"
           /\ (/\ listed \subseteq DOMAIN added_with
               /\ \E m \in listed, n \in listed : value(m) # value(n))
              => reg_last.exc # "none"
           /\ (/\ listed # {}
               /\ listed \subseteq DOMAIN added_with
               /\ \A m \in listed, n \in listed : value(m) = value(n))
              => /\ reg_last.exc = "none"
                 /\ \A n \in listed : reg_last.ret = value(n)

-----------------------------------------------------------------------------
(* Further claims about saving and reloading *)

\* the heads of this table that add_prediction_head registers and returns
\* from: their config carries a label map
Added(hs) ==
    \A n \in DOMAIN hs :
        "label2id" \in DOMAIN hs[n].config /\ hs[n].config.label2id # NoneMap

=============================================================================
